---------------------------- MODULE Spec2Model ----------------------------
(***************************************************************************)
(* A model of propan's collision and motion core: physics.rs (borders,     *)
(* rigid_bounce), game/wall.rs (circle against rectangle), game/ball.rs    *)
(* (Ball, BallController), game/entities.rs (pump, mine, gem, finish),     *)
(* game/scene.rs (FlatScene, HashGridScene) and game/mod.rs (the tick).    *)
(*                                                                         *)
(* Numbers.  The program computes in f32.  A finite f32 is modelled as an  *)
(* integer mantissa counting units of 1/Scale (fixed point), and f32's NaN *)
(* as the value NaN; every arithmetic operation propagates NaN and every   *)
(* comparison with NaN is false, as in IEEE-754.  A product that the code  *)
(* feeds straight into a comparison or a division is kept exact (it counts *)
(* units of 1/Scale^2); a quotient or a product that is stored is rounded  *)
(* toward zero to a mantissa.                                              *)
(***************************************************************************)
EXTENDS Integers, Sequences, FiniteSets, TLC

VARIABLES
    level,          \* GameController.level and the static parts of the entities
    ball,           \* BallController.ball: [pos, vel, size]
    thrust,         \* BallController.thrust_{right,left,up,down}
    acc_overlaps,   \* BallController.acc_overlaps
    num_overlaps,   \* BallController.num_overlaps
    num_gems,       \* BallController.num_gems
    pumps,          \* Pump.time_to_pump of every pump, in level order
    gems,           \* Gem.picked_up of every gem, in level order
    finish,         \* Finish.picked_up (FALSE when the level has no finish)
    pc,             \* the place GameController::update has reached
    idx,            \* the index of the entity a loop of update handles next
    ticks,          \* `ticks` of the running update (60 * dt)
    nticks,         \* updates run so far
    nevents,        \* key events handled so far
    probe           \* the arguments and results of the pure functions under test;
                    \* in the game, the history of the tick: the sum and the
                    \* number of the overlaps its walls have reported so far,
                    \* and whether the ball was dead when the tick began

vars == <<level, ball, thrust, acc_overlaps, num_overlaps, num_gems, pumps,
          gems, finish, pc, idx, ticks, nticks, nevents, probe>>

gameVars == <<level, ball, thrust, acc_overlaps, num_overlaps, num_gems, pumps,
              gems, finish, pc, idx, ticks, nticks, nevents>>

---------------------------------------------------------------------------
(* f32 as fixed point *)

\* mantissa units per 1.0
Scale == 1000

\* f32::NAN
NaN == 0 - 1073741824

Abs(a) == IF a < 0 THEN 0 - a ELSE a

Sgn(a) == IF a < 0 THEN 0 - 1 ELSE IF a > 0 THEN 1 ELSE 0

\* n units written as a mantissa
U(n) == n * Scale

\* a / b rounded toward zero, for integers a and b # 0
TruncDiv(a, b) == Sgn(a) * Sgn(b) * (Abs(a) \div Abs(b))

\* a * b / Scale rounded toward zero, the product never formed whole
MulTrunc(a, b) ==
    LET x == Abs(a)
        y == Abs(b)
    IN  Sgn(a) * Sgn(b) * ((x \div Scale) * y + ((x % Scale) * y) \div Scale)

\* floor(sqrt(n)) for n in lo*lo .. hi*hi - 1, by bisection
RECURSIVE ISqrtIn(_, _, _)
ISqrtIn(n, lo, hi) ==
    IF hi - lo <= 1 THEN lo
    ELSE LET mid == (lo + hi) \div 2
         IN  IF mid * mid <= n THEN ISqrtIn(n, mid, hi) ELSE ISqrtIn(n, lo, mid)

ISqrt(n) == ISqrtIn(n, 0, 46341)

FAdd(a, b) == IF a = NaN \/ b = NaN THEN NaN ELSE a + b

FSub(a, b) == IF a = NaN \/ b = NaN THEN NaN ELSE a - b

FNeg(a) == IF a = NaN THEN NaN ELSE 0 - a

\* a * b for two mantissas, stored
FMul(a, b) == IF a = NaN \/ b = NaN THEN NaN ELSE MulTrunc(a, b)

\* a / k for a mantissa a and a whole number k > 0 (usize as f32)
FDivInt(a, k) == IF a = NaN THEN NaN ELSE TruncDiv(a, k)

\* a == b, a < b, a <= b, a > b of f32: false when either side is NaN
FEq(a, b) == a # NaN /\ b # NaN /\ a = b

FLt(a, b) == a # NaN /\ b # NaN /\ a < b

FLe(a, b) == a # NaN /\ b # NaN /\ a <= b

FGt(a, b) == a # NaN /\ b # NaN /\ a > b

\* f32::max and f32::min: when one argument is NaN the other is returned
f32_max(a, b) == IF a = NaN THEN b ELSE IF b = NaN THEN a ELSE IF a >= b THEN a ELSE b

f32_min(a, b) == IF a = NaN THEN b ELSE IF b = NaN THEN a ELSE IF a <= b THEN a ELSE b

(* Vector2<f32> as a pair *)

default_vector2 == <<0, 0>>

VAdd(v, w) == <<FAdd(v[1], w[1]), FAdd(v[2], w[2])>>

VSub(v, w) == <<FSub(v[1], w[1]), FSub(v[2], w[2])>>

VNeg(v) == <<FNeg(v[1]), FNeg(v[2])>>

VScale(v, f) == <<FMul(v[1], f), FMul(v[2], f)>>

VDivInt(v, k) == <<FDivInt(v[1], k), FDivInt(v[2], k)>>

VHasNaN(v) == v[1] = NaN \/ v[2] = NaN

\* norm_squared and dot, exact, in units of 1/Scale^2; NaN when a component is
RawNormSq(v) == IF VHasNaN(v) THEN NaN ELSE v[1] * v[1] + v[2] * v[2]

RawDot(v, w) == IF VHasNaN(v) \/ VHasNaN(w) THEN NaN ELSE v[1] * w[1] + v[2] * w[2]

\* norm_squared(v) <= d * d for d >= 0, decided without forming a sum that
\* overflows: a component longer than d already makes the norm exceed d
NormSqLe(v, d) ==
    /\ ~VHasNaN(v)
    /\ d # NaN
    /\ Abs(v[1]) <= d
    /\ Abs(v[2]) <= d
    /\ v[1] * v[1] <= d * d - v[2] * v[2]

\* <<q, r>> with a * b = q * c + r and 0 <= r < c, for a, b >= 0 and c > 0,
\* computed bit by bit so that no intermediate exceeds 2 * max(b, c)
RECURSIVE MulDivMod(_, _, _)
MulDivMod(a, b, c) ==
    IF a = 0 THEN <<0, 0>>
    ELSE LET h  == MulDivMod(a \div 2, b, c)
             q2 == 2 * h[1] + (2 * h[2]) \div c
             r2 == (2 * h[2]) % c
             t  == r2 + (b % c)
         IN  IF a % 2 = 0 THEN <<q2, r2>>
             ELSE <<q2 + (b \div c) + (t \div c), t % c>>

\* a * b / c rounded toward zero, for integers a, b and c > 0
MulDiv(a, b, c) == Sgn(a) * Sgn(b) * MulDivMod(Abs(a), Abs(b), c)[1]

---------------------------------------------------------------------------
(* physics.rs *)

\* CollisionInfo::No and CollisionInfo::Yes(overlap)
No == [yes |-> FALSE, overlap |-> <<0, 0>>]

Yes(overlap) == [yes |-> TRUE, overlap |-> overlap]

\* GeneralReflection with the factor 2 of the reflection left out
GeneralReflectionHalf(vel, n) ==
    LET d == RawDot(vel, n)
        q == RawNormSq(n)
    IN  IF d = NaN \/ q = NaN \/ q = 0 THEN <<NaN, NaN>>
        ELSE <<vel[1] - MulDiv(n[1], d, q), vel[2] - MulDiv(n[2], d, q)>>

\* the `_` arm of rigid_bounce: -(n * 2. * dot(&v, &n) / norm_squared(&n) - v)
GeneralReflection(vel, n) ==
    LET d == RawDot(vel, n)
        q == RawNormSq(n)
    IN  IF d = NaN \/ q = NaN \/ q = 0 THEN <<NaN, NaN>>
        ELSE <<vel[1] - MulDiv(2 * n[1], d, q), vel[2] - MulDiv(2 * n[2], d, q)>>

\* rigid_bounce without its first arm: a zero overlap falls into the arm x == 0
rigid_bounce_no_zero_arm(vel, overlap) ==
    IF FEq(overlap[1], 0) THEN <<vel[1], FNeg(vel[2])>>
    ELSE IF FEq(overlap[2], 0) THEN <<FNeg(vel[1]), vel[2]>>
    ELSE GeneralReflection(vel, overlap)

\* rigid_bounce with the two axis-aligned arms exchanged
rigid_bounce_swapped(vel, overlap) ==
    IF FEq(overlap[1], 0) /\ FEq(overlap[2], 0) THEN vel
    ELSE IF FEq(overlap[1], 0) THEN <<FNeg(vel[1]), vel[2]>>
    ELSE IF FEq(overlap[2], 0) THEN <<vel[1], FNeg(vel[2])>>
    ELSE GeneralReflection(vel, overlap)

rigid_bounce(vel, overlap) ==
    IF FEq(overlap[1], 0) /\ FEq(overlap[2], 0) THEN vel
    ELSE IF FEq(overlap[1], 0) THEN <<vel[1], FNeg(vel[2])>>
    ELSE IF FEq(overlap[2], 0) THEN <<FNeg(vel[1]), vel[2]>>
    ELSE GeneralReflection(vel, overlap)

\* LeftBorder's test with `dx < 0.` in place of `dx <= 0.`
LeftBorder_test_touching(bound, position, radius) ==
    LET dx == FSub(FAdd(bound, radius), position[1])
    IN  IF FLt(dx, 0) THEN No ELSE Yes(<<dx, 0>>)

LeftBorder_test_circle_collision(bound, position, radius) ==
    LET dx == FSub(FAdd(bound, radius), position[1])
    IN  IF FLe(dx, 0) THEN No ELSE Yes(<<dx, 0>>)

RightBorder_test_circle_collision(bound, position, radius) ==
    LET dx == FSub(FSub(bound, position[1]), radius)
    IN  IF FGt(dx, 0) THEN No ELSE Yes(<<dx, 0>>)

UpBorder_test_circle_collision(bound, position, radius) ==
    LET dy == FSub(FAdd(bound, radius), position[2])
    IN  IF FLe(dy, 0) THEN No ELSE Yes(<<0, dy>>)

DownBorder_test_circle_collision(bound, position, radius) ==
    LET dy == FSub(FSub(bound, position[2]), radius)
    IN  IF FGt(dy, 0) THEN No ELSE Yes(<<0, dy>>)

(* game/wall.rs *)

\* delta_vector * ((radius - dist) / dist) with dist = sqrt(dist_sqr); at
\* dist == 0 the delta is (0, 0) and the factor is +inf or 0/0: NaN either way
WallOverlap(delta_vector, radius) ==
    LET dist == ISqrt(RawNormSq(delta_vector))
    IN  IF dist = 0 THEN <<NaN, NaN>>
        ELSE <<TruncDiv(delta_vector[1] * (radius - dist), dist),
               TruncDiv(delta_vector[2] * (radius - dist), dist)>>

\* Wall's test with `dist_sqr < radius * radius` in place of `<=`
Wall_test_strict(w, position, radius) ==
    LET br        == VAdd(w.pos, w.dim)
        nearest_x == f32_max(w.pos[1], f32_min(position[1], br[1]))
        nearest_y == f32_max(w.pos[2], f32_min(position[2], br[2]))
        delta_vector == VSub(position, <<nearest_x, nearest_y>>)
    IN  IF NormSqLe(delta_vector, radius) /\ RawNormSq(delta_vector) # radius * radius
        THEN Yes(WallOverlap(delta_vector, radius))
        ELSE No

\* Wall's test with the circle's centre clamped on the x axis only
Wall_test_x_only(w, position, radius) ==
    LET br        == VAdd(w.pos, w.dim)
        nearest_x == f32_max(w.pos[1], f32_min(position[1], br[1]))
        delta_vector == VSub(position, <<nearest_x, position[2]>>)
    IN  IF NormSqLe(delta_vector, radius)
        THEN Yes(WallOverlap(delta_vector, radius))
        ELSE No

Wall_test_circle_collision(w, position, radius) ==
    LET br        == VAdd(w.pos, w.dim)
        nearest_x == f32_max(w.pos[1], f32_min(position[1], br[1]))
        nearest_y == f32_max(w.pos[2], f32_min(position[2], br[2]))
        delta_vector == VSub(position, <<nearest_x, nearest_y>>)
    IN  IF NormSqLe(delta_vector, radius)
        THEN Yes(WallOverlap(delta_vector, radius))
        ELSE No

(* game/entities.rs *)

PUMP_SIZE == 34 * Scale

MINE_SIZE == 6 * Scale

GEM_SIZE == 24 * Scale

FINISH_SIZE == 24 * Scale

\* <&mut Pump as SimpleCollidable>::test_circle_collision_simple
Pump_test_circle_collision_simple(pos, position, radius) ==
    LET d == PUMP_SIZE \div 2 + radius - U(2)
    IN  NormSqLe(VSub(pos, position), d)

\* <&Mine as SimpleCollidable>::test_circle_collision_simple
Mine_test_circle_collision_simple(pos, position, radius) ==
    LET d == MINE_SIZE \div 2 + radius + U(1)
    IN  NormSqLe(VSub(pos, position), d)

\* <Gem as SimpleCollidable>::test_circle_collision_simple
Gem_test_circle_collision_simple(pos, picked_up, position, radius) ==
    IF picked_up THEN FALSE
    ELSE LET d == GEM_SIZE \div 2 + radius + U(1)
         IN  NormSqLe(VSub(pos, position), d)

\* <Finish as SimpleCollidable>::test_circle_collision_simple
Finish_test_circle_collision_simple(pos, picked_up, position, radius) ==
    IF picked_up THEN FALSE
    ELSE LET d == FINISH_SIZE \div 2 + radius + U(1)
         IN  NormSqLe(VSub(pos, position), d)

(* game/scene.rs *)

\* Positioned::position of a prop
Positioned_position(p) == p.pos

\* `x as i32` of the quotient a / b: toward zero, NaN to 0
CastQuotient(a, b) == IF a = NaN \/ b = NaN THEN 0 ELSE TruncDiv(a, b)

\* position_to_cell rounding the quotients down instead of toward zero
position_to_cell_floor(pos, cell_size) ==
    <<pos[1] \div cell_size, pos[2] \div cell_size>>

position_to_cell(pos, cell_size) ==
    <<CastQuotient(pos[1], cell_size), CastQuotient(pos[2], cell_size)>>

\* FlatScene::from_objects: the props in the order given
FlatScene_from_objects(objects) == [props |-> objects]

\* FlatScene::at and at_mut: every prop, whatever the position; a prop is named
\* by its index in the list the scene was built from
FlatScene_at(scene, pos) == [i \in 1..Len(scene.props) |-> i]

\* HashGridScene::from_objects: each prop pushed to the vector of its cell
HashGridScene_from_objects(cell_size, objects) ==
    LET cellOf(i) == position_to_cell(Positioned_position(objects[i]), cell_size)
        cells     == {cellOf(i) : i \in 1..Len(objects)}
        all       == [i \in 1..Len(objects) |-> i]
    IN  [cell_size |-> cell_size,
         grid |-> [c \in cells |-> SelectSeq(all, LAMBDA i : cellOf(i) = c)]]

\* HashGridScene::at_single_cell and at_single_cell_mut
at_single_cell(scene, cell) ==
    IF cell \in DOMAIN scene.grid THEN scene.grid[cell] ELSE <<>>

\* the x offsets at and at_mut iterate over, and the y offsets
AtOffsetsX == <<0 - 1, 0, 0 - 1>>

AtOffsetsY == <<0 - 1, 0, 1>>

\* the cells at and at_mut visit, in order: for each x offset, each y offset
VisitedCells(cell) ==
    [k \in 1..(Len(AtOffsetsX) * Len(AtOffsetsY)) |->
        <<AtOffsetsX[((k - 1) \div Len(AtOffsetsY)) + 1] + cell[1],
          AtOffsetsY[((k - 1) % Len(AtOffsetsY)) + 1] + cell[2]>>]

RECURSIVE FlatMapCells(_, _, _)
FlatMapCells(scene, cells, k) ==
    IF k > Len(cells) THEN <<>>
    ELSE at_single_cell(scene, cells[k]) \o FlatMapCells(scene, cells, k + 1)

\* HashGridScene::at and at_mut: the props yielded, in order
HashGridScene_at(scene, pos) ==
    FlatMapCells(scene, VisitedCells(position_to_cell(pos, scene.cell_size)), 1)

\* Collidable::test_circle_collision, by the type of the collidable
test_circle_collision(c, position, radius) ==
    CASE c.type = "LeftBorder"  -> LeftBorder_test_circle_collision(c.bound, position, radius)
      [] c.type = "RightBorder" -> RightBorder_test_circle_collision(c.bound, position, radius)
      [] c.type = "UpBorder"    -> UpBorder_test_circle_collision(c.bound, position, radius)
      [] c.type = "DownBorder"  -> DownBorder_test_circle_collision(c.bound, position, radius)
      [] c.type = "Wall"        -> Wall_test_circle_collision(c, position, radius)

---------------------------------------------------------------------------
(* game/ball.rs: Ball and BallController.  A controller is the record       *)
(* [ball, thrust, acc_overlaps, num_overlaps, num_gems]; every method is an *)
(* operator from the controller before the call to the controller after.   *)

BALL_CAPACITY == 34 * Scale

BALL_DEFAULT_SIZE == 28 * Scale

\* TOO_MUCH_SPEED_SQR, in units of 1/Scale^2
TOO_MUCH_SPEED_SQR == 22 * Scale * Scale

\* Ball::add_size without the floor at 0
Ball_add_size_unclamped(b, size_delta) ==
    [b EXCEPT !.size = FAdd(b.size, size_delta)]

\* Ball::add_size
Ball_add_size(b, size_delta) ==
    [b EXCEPT !.size = f32_max(0, FAdd(b.size, size_delta))]

\* Ball::is_dead with both ends of the range dead
Ball_is_dead_inclusive(b) == FLe(b.size, U(4)) \/ ~FLt(b.size, BALL_CAPACITY + U(2))

\* Ball::is_dead
Ball_is_dead(b) == FLt(b.size, U(4)) \/ FGt(b.size, BALL_CAPACITY + U(2))

\* Ball::add_position
Ball_add_position(b, t) == [b EXCEPT !.pos = VAdd(b.pos, t)]

\* Ball::decay_velocity; the factors used are 6e-3 and 5e-3, given in thousandths
Ball_decay_velocity(b, thousandths) ==
    [b EXCEPT !.vel = VSub(b.vel, VScale(b.vel, (thousandths * Scale) \div 1000))]

\* Ball::thrust
Ball_thrust(b, t) == [b EXCEPT !.vel = VAdd(b.vel, t)]

\* Ball::update_position
Ball_update_position(b, factor) == [b EXCEPT !.pos = VAdd(b.pos, VScale(b.vel, factor))]

\* Ball::with_default_size
Ball_with_default_size(pos) ==
    [pos |-> pos, vel |-> default_vector2, size |-> BALL_DEFAULT_SIZE]

\* BallController::new
BallController_new(b) ==
    [ball |-> b,
     thrust |-> [right |-> FALSE, left |-> FALSE, up |-> FALSE, down |-> FALSE],
     acc_overlaps |-> default_vector2, num_overlaps |-> 0, num_gems |-> 0]

\* BallController::is_dead
is_dead(bc) == Ball_is_dead(bc.ball)

\* AnimatedObject::issue_bounce
issue_bounce(bc, overlap) ==
    [bc EXCEPT !.acc_overlaps = VAdd(bc.acc_overlaps, overlap),
               !.num_overlaps = bc.num_overlaps + 1]

\* AnimatedObject::correct_and_flip_x and correct_and_flip_y
correct_and_flip_x(bc, overlap) ==
    [bc EXCEPT !.ball = [Ball_add_position(bc.ball, <<overlap, 0>>)
                            EXCEPT !.vel = <<FNeg(bc.ball.vel[1]), bc.ball.vel[2]>>]]

correct_and_flip_y(bc, overlap) ==
    [bc EXCEPT !.ball = [Ball_add_position(bc.ball, <<0, overlap>>)
                            EXCEPT !.vel = <<bc.ball.vel[1], FNeg(bc.ball.vel[2])>>]]

\* AnimatedObject::damage, heal, pick_up, items
damage(bc, dmg) == [bc EXCEPT !.ball = Ball_add_size(bc.ball, FNeg(dmg))]

heal(bc, health) == [bc EXCEPT !.ball = Ball_add_size(bc.ball, health)]

pick_up(bc) == [bc EXCEPT !.num_gems = bc.num_gems + 1]

items(bc) == bc.num_gems

\* BallController::correct_and_rigid_bounce
correct_and_rigid_bounce(bc, overlap) ==
    [bc EXCEPT !.ball = [Ball_add_position(bc.ball, overlap)
                            EXCEPT !.vel = rigid_bounce(bc.ball.vel, overlap)]]

\* the first part of BallController::update: resolve collisions
ResolveOverlaps(bc) ==
    IF bc.num_overlaps > 0
    THEN LET overlap == VDivInt(bc.acc_overlaps, bc.num_overlaps)
             bounced == correct_and_rigid_bounce(bc, overlap)
         IN  [bounced EXCEPT !.ball = Ball_decay_velocity(bounced.ball, 6),
                             !.acc_overlaps = default_vector2,
                             !.num_overlaps = 0]
    ELSE bc

\* thrust_force = 6.0e-2 * factor
ThrustForce(factor) == FMul((60 * Scale) \div 1000, factor)

\* the thrusts of BallController::update, in the order right, left, up, down
ApplyThrust(b, t, factor) ==
    LET f  == ThrustForce(factor)
        b1 == IF t.right THEN Ball_thrust(b, <<f, 0>>) ELSE b
        b2 == IF t.left THEN Ball_thrust(b1, <<FNeg(f), 0>>) ELSE b1
        b3 == IF t.up THEN Ball_thrust(b2, <<0, FNeg(f)>>) ELSE b2
    IN  IF t.down THEN Ball_thrust(b3, <<0, f>>) ELSE b3

\* total_effort of BallController::update
TotalEffort(t) ==
    (IF t.right THEN 1 ELSE 0) + (IF t.left THEN 1 ELSE 0)
        + (IF t.up THEN 1 ELSE 0) + (IF t.down THEN 1 ELSE 0)

\* total_effort as f32 * -1.2e-2 * factor
EffortDecay(t, factor) == FMul(TotalEffort(t) * (0 - ((12 * Scale) \div 1000)), factor)

\* BallController::update integrating the position first, with the velocity of
\* the tick before
BallController_update_move_first(bc, factor) ==
    IF is_dead(bc) THEN bc
    ELSE LET m  == [bc EXCEPT !.ball = Ball_update_position(bc.ball, factor)]
             r  == ResolveOverlaps(m)
             b1 == ApplyThrust(r.ball, r.thrust, factor)
             b2 == IF FGt(RawNormSq(b1.vel), TOO_MUCH_SPEED_SQR)
                   THEN Ball_decay_velocity(b1, 5) ELSE b1
         IN  [r EXCEPT !.ball = Ball_add_size(b2, EffortDecay(r.thrust, factor))]

\* BallController::update
BallController_update(bc, factor) ==
    IF is_dead(bc) THEN bc
    ELSE LET r  == ResolveOverlaps(bc)
             b1 == ApplyThrust(r.ball, r.thrust, factor)
             b2 == IF FGt(RawNormSq(b1.vel), TOO_MUCH_SPEED_SQR)
                   THEN Ball_decay_velocity(b1, 5) ELSE b1
             b3 == Ball_update_position(b2, factor)
         IN  [r EXCEPT !.ball = Ball_add_size(b3, EffortDecay(r.thrust, factor))]

\* the radius handle_collision_with and handle_simple_collision_with test with
Radius(bc) == FDivInt(bc.ball.size, 2)

\* Collidable::on_collision of the four borders and of Wall
Border_on_collision(c, bc, overlap) ==
    IF c.type \in {"LeftBorder", "RightBorder"}
    THEN correct_and_flip_x(bc, overlap[1])
    ELSE correct_and_flip_y(bc, overlap[2])

\* Wall::on_collision resolving the contact at once instead of registering it
Wall_on_collision_at_once(bc, overlap) == correct_and_rigid_bounce(bc, overlap)

Wall_on_collision(bc, overlap) == issue_bounce(bc, overlap)

\* BallController::handle_collision_with
handle_collision_with(bc, c) ==
    LET collision == test_circle_collision(c, bc.ball.pos, Radius(bc))
    IN  IF collision.yes
        THEN IF c.type = "Wall" THEN Wall_on_collision(bc, collision.overlap)
             ELSE Border_on_collision(c, bc, collision.overlap)
        ELSE bc

\* Pump::update, on time_to_pump (rot only turns the sprite)
Pump_update(time_to_pump, factor) ==
    IF FGt(time_to_pump, 0) THEN FSub(time_to_pump, factor) ELSE time_to_pump

\* Pump::on_collision_simple setting the cooldown instead of adding to it
Pump_on_collision_simple_reset(bc, time_to_pump) ==
    IF FLe(time_to_pump, 0)
    THEN <<heal(bc, U(1)), U(22)>>
    ELSE <<bc, time_to_pump>>

\* Pump::on_collision_simple: <<the controller, the pump's time_to_pump>> after it
Pump_on_collision_simple(bc, time_to_pump) ==
    IF FLe(time_to_pump, 0)
    THEN <<heal(bc, U(1)), FAdd(time_to_pump, U(22))>>
    ELSE <<bc, time_to_pump>>

\* Mine::on_collision_simple with a damage of 2.0
Mine_on_collision_simple_weak(bc) == damage(bc, U(2))

\* Mine::on_collision_simple
Mine_on_collision_simple(bc) == damage(bc, (25 * Scale) \div 10)

\* Gem::on_collision_simple without the guard on picked_up
Gem_on_collision_simple_again(bc, picked_up) == <<pick_up(bc), TRUE>>

\* Gem::on_collision_simple: <<the controller, the gem's picked_up>> after it
Gem_on_collision_simple(bc, picked_up) ==
    IF picked_up THEN <<bc, picked_up>> ELSE <<pick_up(bc), TRUE>>

\* Finish::on_collision_simple triggering with at least the gems required
Finish_on_collision_simple_at_least(bc, picked_up, gems_required) ==
    IF ~picked_up /\ items(bc) >= gems_required THEN TRUE ELSE picked_up

\* Finish::on_collision_simple triggering one gem late
Finish_on_collision_simple_one_more(bc, picked_up, gems_required) ==
    IF ~picked_up /\ items(bc) = gems_required + 1 THEN TRUE ELSE picked_up

\* Finish::on_collision_simple: the finish's picked_up after it
Finish_on_collision_simple(bc, picked_up, gems_required) ==
    IF ~picked_up /\ items(bc) = gems_required THEN TRUE ELSE picked_up

(* level/map.rs *)

left_border(map) == [type |-> "LeftBorder", bound |-> 0]

right_border(map) == [type |-> "RightBorder", bound |-> map.width]

up_border(map) == [type |-> "UpBorder", bound |-> 0]

down_border(map) == [type |-> "DownBorder", bound |-> map.height]

---------------------------------------------------------------------------
(* The collision tests on their own: the arguments are drawn from bounded   *)
(* sets, TestCollision applies test_circle_collision to them and            *)
(* ApplyCorrection adds the reported overlap to the circle's position and   *)
(* tests again.                                                             *)

\* coordinates run over the half units -4.0, -3.5, ... (MaxCoord + 1 of them)
MaxCoord == 30

\* radii run over 0, 1.25, 2.5, ... (MaxRadius + 1 of them)
MaxRadius == 2

ProbeCoords == {(k - 8) * (Scale \div 2) : k \in 0..MaxCoord}

ProbeRadii == {k * (Scale + Scale \div 4) : k \in 0..MaxRadius}

ProbeBounds == {0, U(10)}

ProbeWalls ==
    { [type |-> "Wall", pos |-> <<U(2), U(3)>>, dim |-> <<U(4), U(3)>>],
      [type |-> "Wall", pos |-> <<0, 0>>,       dim |-> <<U(10), U(2)>>],
      [type |-> "Wall", pos |-> <<U(5), U(5)>>, dim |-> <<0, 0>>] }

ProbeCollidables ==
    { [type |-> t, bound |-> b] :
        t \in {"LeftBorder", "RightBorder", "UpBorder", "DownBorder"},
        b \in ProbeBounds }
    \cup ProbeWalls

\* the game does not run while a pure function is under test
GameIdle ==
    /\ level = [width |-> 0, height |-> 0, ball_pos |-> <<0, 0>>, walls |-> <<>>,
                pumps |-> <<>>, mines |-> <<>>, gems |-> <<>>, finish |-> <<>>]
    /\ ball = [pos |-> <<0, 0>>, vel |-> <<0, 0>>, size |-> 0]
    /\ thrust = [right |-> FALSE, left |-> FALSE, up |-> FALSE, down |-> FALSE]
    /\ acc_overlaps = default_vector2
    /\ num_overlaps = 0
    /\ num_gems = 0
    /\ pumps = <<>>
    /\ gems = <<>>
    /\ finish = FALSE
    /\ pc = "off"
    /\ idx = 0
    /\ ticks = 0
    /\ nticks = 0
    /\ nevents = 0

InitCollide ==
    /\ GameIdle
    /\ \E c \in ProbeCollidables, x \in ProbeCoords, y \in ProbeCoords, r \in ProbeRadii :
          probe = [stage |-> "in", c |-> c, position |-> <<x, y>>, radius |-> r,
                   res |-> No, res2 |-> No]

TestCollision ==
    /\ probe.stage = "in"
    /\ probe' = [probe EXCEPT
                    !.stage = "tested",
                    !.res = test_circle_collision(probe.c, probe.position, probe.radius)]
    /\ UNCHANGED gameVars

ApplyCorrection ==
    /\ probe.stage = "tested"
    /\ probe.res.yes
    /\ LET corrected == VAdd(probe.position, probe.res.overlap)
       IN  probe' = [probe EXCEPT
                        !.stage = "corrected",
                        !.position = corrected,
                        !.res2 = test_circle_collision(probe.c, corrected, probe.radius)]
    /\ UNCHANGED gameVars

NextCollide == TestCollision \/ ApplyCorrection

SpecCollide == InitCollide /\ [][NextCollide]_vars

(* Claims about the collision tests, checked under SpecCollide *)

Tested(types) == probe.stage = "tested" /\ probe.c.type \in types

\* the distance by which v lies outside the interval [lo, hi]
Gap(lo, hi, v) == IF v < lo THEN lo - v ELSE IF v > hi THEN v - hi ELSE 0

\* the squared distance from p to the nearest point of the wall's rectangle
RectDistSq(w, p) ==
    LET gx == Gap(w.pos[1], w.pos[1] + w.dim[1], p[1])
        gy == Gap(w.pos[2], w.pos[2] + w.dim[2], p[2])
    IN  gx * gx + gy * gy

\* p strictly inside the wall's rectangle grown by r on all four sides
InsideExpanded(w, p, r) ==
    /\ w.pos[1] - r < p[1] /\ p[1] < w.pos[1] + w.dim[1] + r
    /\ w.pos[2] - r < p[2] /\ p[2] < w.pos[2] + w.dim[2] + r

\* p beyond the rectangle on both axes: in one of the four corner squares
InCornerSquare(w, p) ==
    /\ Gap(w.pos[1], w.pos[1] + w.dim[1], p[1]) > 0
    /\ Gap(w.pos[2], w.pos[2] + w.dim[2], p[2]) > 0

\* C3 (as claimed): whenever a collidable reports Yes(overlap), the same test at
\* position + overlap reports No.
C3_CorrectionSeparates ==
    probe.stage = "corrected" => ~probe.res2.yes

\* C4: a wall reports Yes exactly when the squared distance from the position to
\* the nearest point of its rectangle is at most the radius squared.
C4_WallYesIffWithinRadius ==
    Tested({"Wall"}) =>
        (probe.res.yes <=>
            RectDistSq(probe.c, probe.position) <= probe.radius * probe.radius)

\* C4's case: a circle off a corner of the wall at distance exactly its radius
C4_Witness ==
    /\ Tested({"Wall"})
    /\ InCornerSquare(probe.c, probe.position)
    /\ probe.radius > 0
    /\ RectDistSq(probe.c, probe.position) = probe.radius * probe.radius
    /\ probe.res.yes

\* C5 (as claimed): every position strictly inside the wall's rectangle grown by
\* the radius on all four sides collides with the wall.
C5_InsideExpandedYes ==
    (Tested({"Wall"}) /\ InsideExpanded(probe.c, probe.position, probe.radius))
        => probe.res.yes

\* C5 (amended): a position strictly inside the grown rectangle collides with
\* the wall unless it lies in a corner square farther than the radius from the
\* corner; there it does not.
C5_InsideExpandedYesUnlessCorner ==
    (Tested({"Wall"}) /\ InsideExpanded(probe.c, probe.position, probe.radius))
        => (probe.res.yes <=>
               ~(/\ InCornerSquare(probe.c, probe.position)
                 /\ RectDistSq(probe.c, probe.position) > probe.radius * probe.radius))

\* C5's case: a position beside the wall, outside it and inside the grown
\* rectangle, which collides
C5_Witness ==
    /\ Tested({"Wall"})
    /\ InsideExpanded(probe.c, probe.position, probe.radius)
    /\ ~InCornerSquare(probe.c, probe.position)
    /\ RectDistSq(probe.c, probe.position) > 0
    /\ probe.res.yes

\* C6: LeftBorder(B) (UpBorder on y) reports Yes((depth, 0)) (resp. (0, depth))
\* exactly when depth = B + radius - position.axis > 0, and No otherwise.
C6_LeftUpBorderDepth ==
    /\ Tested({"LeftBorder"}) =>
          LET depth == probe.c.bound + probe.radius - probe.position[1]
          IN  probe.res = IF depth > 0 THEN Yes(<<depth, 0>>) ELSE No
    /\ Tested({"UpBorder"}) =>
          LET depth == probe.c.bound + probe.radius - probe.position[2]
          IN  probe.res = IF depth > 0 THEN Yes(<<0, depth>>) ELSE No

\* C6's case: the circle exactly touching the left border (depth == 0)
C6_Witness ==
    /\ Tested({"LeftBorder"})
    /\ probe.radius > 0
    /\ probe.position[1] = probe.c.bound + probe.radius
    /\ ~probe.res.yes

\* C7 (as claimed): RightBorder(bound) and DownBorder(bound) report No exactly
\* when position.axis + radius <= bound.
C7_RightDownNoIffWithin ==
    /\ Tested({"RightBorder"}) =>
          (~probe.res.yes <=> probe.position[1] + probe.radius <= probe.c.bound)
    /\ Tested({"DownBorder"}) =>
          (~probe.res.yes <=> probe.position[2] + probe.radius <= probe.c.bound)

---------------------------------------------------------------------------
(* rigid_bounce on its own: Bounce applies rigid_bounce to a velocity and   *)
(* an overlap drawn from bounded sets, Reflect evaluates the general        *)
(* reflection formula on the same arguments.                                *)

\* velocity components run over -MaxVel/2 .. MaxVel/2 in steps of one half
MaxVel == 6

\* overlap components run over the whole numbers -MaxNormal .. MaxNormal
MaxNormal == 5

ProbeVels == {(k - MaxVel) * (Scale \div 2) : k \in 0..(2 * MaxVel)}

ProbeNormals == {U(k - MaxNormal) : k \in 0..(2 * MaxNormal)}

InitBounce ==
    /\ GameIdle
    /\ \E vx \in ProbeVels, vy \in ProbeVels, nx \in ProbeNormals, ny \in ProbeNormals :
          probe = [stage |-> "in", vel |-> <<vx, vy>>, overlap |-> <<nx, ny>>,
                   out |-> <<0, 0>>, general |-> <<0, 0>>]

Bounce ==
    /\ probe.stage = "in"
    /\ probe' = [probe EXCEPT !.stage = "bounced",
                              !.out = rigid_bounce(probe.vel, probe.overlap)]
    /\ UNCHANGED gameVars

Reflect ==
    /\ probe.stage = "bounced"
    /\ probe' = [probe EXCEPT !.stage = "reflected",
                              !.general = GeneralReflection(probe.vel, probe.overlap)]
    /\ UNCHANGED gameVars

NextBounce == Bounce \/ Reflect

SpecBounce == InitBounce /\ [][NextBounce]_vars

(* Claims about rigid_bounce, checked under SpecBounce *)

AxisAligned(n) == (n[1] = 0 /\ n[2] # 0) \/ (n[2] = 0 /\ n[1] # 0)

Oblique(n) == n[1] # 0 /\ n[2] # 0

\* the special arms of rigid_bounce, as the claim states them
SpecialArms(v, n, out) ==
    /\ (n[1] = 0 /\ n[2] # 0) => out = <<v[1], 0 - v[2]>>
    /\ (n[2] = 0 /\ n[1] # 0) => out = <<0 - v[1], v[2]>>
    /\ (n[1] = 0 /\ n[2] = 0) => out = v
    /\ (v = <<U(3), U(0 - 2)>> /\ n = <<0, U(5)>>) => out = <<U(3), U(2)>>

\* C8 (as claimed): for every nonzero overlap the squared norm of the bounced
\* velocity equals the squared norm of the velocity.
C8_NormExact ==
    (probe.stage = "bounced" /\ probe.overlap # <<0, 0>>)
        => RawNormSq(probe.out) = RawNormSq(probe.vel)

\* C8 (amended): for an axis-aligned overlap the flipped component keeps its
\* magnitude and the other is unchanged, so the norm is kept exactly; for an
\* oblique overlap the norm is kept up to the rounding of the one quotient: each
\* component is within one unit in the last place of the exact reflection, so
\* the squared norms differ by less than 4 (|vx| + |vy|) + 2 of those units.
C8_NormWithinRounding ==
    probe.stage = "bounced" =>
        /\ (probe.overlap[1] = 0 /\ probe.overlap[2] # 0) =>
              /\ probe.out[1] = probe.vel[1]
              /\ Abs(probe.out[2]) = Abs(probe.vel[2])
              /\ RawNormSq(probe.out) = RawNormSq(probe.vel)
        /\ (probe.overlap[2] = 0 /\ probe.overlap[1] # 0) =>
              /\ probe.out[2] = probe.vel[2]
              /\ Abs(probe.out[1]) = Abs(probe.vel[1])
              /\ RawNormSq(probe.out) = RawNormSq(probe.vel)
        /\ Oblique(probe.overlap) =>
              Abs(RawNormSq(probe.out) - RawNormSq(probe.vel))
                  < 4 * (Abs(probe.vel[1]) + Abs(probe.vel[2])) + 2

\* C8's case: an oblique overlap whose reflection is rounded and changes the norm
C8_Witness ==
    /\ probe.stage = "bounced"
    /\ Oblique(probe.overlap)
    /\ RawNormSq(probe.out) # RawNormSq(probe.vel)

\* C9 (as claimed): the three special arms behave as stated, and each gives the
\* result of the general reflection formula on the same arguments.
C9_SpecialArmsAreGeneral ==
    probe.stage = "reflected" =>
        /\ SpecialArms(probe.vel, probe.overlap, probe.out)
        /\ ~Oblique(probe.overlap) => probe.out = probe.general

\* C9 (amended): the three special arms behave as stated; the two axis-aligned
\* arms give the result of the general reflection formula, while for the zero
\* overlap that formula divides 0 by 0 and gives NaN, not the velocity.
C9_AxisArmsAreGeneral ==
    probe.stage = "reflected" =>
        /\ SpecialArms(probe.vel, probe.overlap, probe.out)
        /\ AxisAligned(probe.overlap) => probe.out = probe.general
        /\ probe.overlap = <<0, 0>> => VHasNaN(probe.general) /\ probe.out = probe.vel

\* C9's case: velocity (3, -2) bounced on the overlap (0, 5) gives (3, 2)
C9_Witness ==
    /\ probe.stage = "reflected"
    /\ probe.vel = <<U(3), U(0 - 2)>>
    /\ probe.overlap = <<0, U(5)>>
    /\ probe.out = <<U(3), U(2)>>
    /\ probe.general = probe.out

---------------------------------------------------------------------------
(* The two scenes on their own: BuildScenes builds a FlatScene and a        *)
(* HashGridScene from the same mines, QueryScenes asks both for the props   *)
(* at the same point.                                                       *)

\* prop and query coordinates run over -9, -5, -1, 3, ... (MaxSceneCoord + 1 of them)
MaxSceneCoord == 5

\* props in a scene
MaxProps == 2

SceneCoords == {U(4 * k - 9) : k \in 0..MaxSceneCoord}

ScenePositions == {<<x, y>> : x \in SceneCoords, y \in {U(0 - 5), U(3)}}

SceneCellSizes == {U(4), U(8)}

SceneRadius == U(2)

\* the distance within which a mine touches a circle of the query's radius
MineReach == MINE_SIZE \div 2 + SceneRadius + U(1)

InitScene ==
    /\ GameIdle
    /\ \E objects \in [1..MaxProps -> ScenePositions], point \in ScenePositions,
          cs \in SceneCellSizes :
          probe = [stage |-> "in", cell_size |-> cs, point |-> point,
                   objects |-> [i \in 1..MaxProps |-> [pos |-> objects[i]]],
                   flat |-> <<>>, grid |-> <<>>, flat_at |-> <<>>, grid_at |-> <<>>]

BuildScenes ==
    /\ probe.stage = "in"
    /\ probe' = [probe EXCEPT
                    !.stage = "built",
                    !.flat = FlatScene_from_objects(probe.objects),
                    !.grid = HashGridScene_from_objects(probe.cell_size, probe.objects)]
    /\ UNCHANGED gameVars

QueryScenes ==
    /\ probe.stage = "built"
    /\ probe' = [probe EXCEPT
                    !.stage = "queried",
                    !.flat_at = FlatScene_at(probe.flat, probe.point),
                    !.grid_at = HashGridScene_at(probe.grid, probe.point)]
    /\ UNCHANGED gameVars

NextScene == BuildScenes \/ QueryScenes

SpecScene == InitScene /\ [][NextScene]_vars

(* Claims about the scenes, checked under SpecScene *)

Range(seq) == {seq[i] : i \in 1..Len(seq)}

\* the yielded props that touch the query's circle
Touching(yielded) ==
    {i \in Range(yielded) :
        Mine_test_circle_collision_simple(probe.objects[i].pos, probe.point, SceneRadius)}

\* C10 (as claimed): with a cell size of at least the props' reach, the props
\* yielded by HashGridScene::at that touch the query's circle are those yielded
\* by FlatScene::at that touch it.
C10_GridAtEqualsFlatAt ==
    (probe.stage = "queried" /\ probe.cell_size >= MineReach)
        => Touching(probe.grid_at) = Touching(probe.flat_at)

\* the Chebyshev distance between two cells
Chebyshev(a, b) ==
    LET dx == Abs(a[1] - b[1])
        dy == Abs(a[2] - b[2])
    IN  IF dx > dy THEN dx ELSE dy

\* the cell a prop was assigned at construction
AssignedCell(i) == position_to_cell(probe.objects[i].pos, probe.cell_size)

\* C11 (as claimed): a prop is yielded by HashGridScene::at(P) exactly when the
\* cell it was assigned at construction is within Chebyshev distance 1 of P's
\* cell.
C11_YieldedIffWithinOneCell ==
    probe.stage = "queried" =>
        \A i \in 1..Len(probe.objects) :
            (i \in Range(probe.grid_at)) <=>
                Chebyshev(AssignedCell(i),
                          position_to_cell(probe.point, probe.cell_size)) <= 1



\* the positions given to position_to_cell: those of the props and the query's
CellInputs == {probe.objects[i].pos : i \in 1..Len(probe.objects)} \cup {probe.point}

\* on one axis, x lies in the half-open interval of width cell_size that
\* starts at c * cell_size
InFloorCell(x, c, cell_size) == c * cell_size <= x /\ x < (c + 1) * cell_size

\* on one axis, x lies in the interval of the cell c when quotients are cut
\* toward zero: the cell 0 runs from -cell_size to cell_size, both excluded
InTruncatedCell(x, c, cell_size) ==
    IF c > 0 THEN c * cell_size <= x /\ x < (c + 1) * cell_size
    ELSE IF c < 0 THEN (c - 1) * cell_size < x /\ x <= c * cell_size
    ELSE 0 - cell_size < x /\ x < cell_size

\* C24 (as claimed): a position is assigned the cell (floor(x / cell_size),
\* floor(y / cell_size)) for every coordinate, negative ones included, so every
\* cell covers a half-open interval of width cell_size on each axis.
C24_CellIsFloor ==
    probe.stage = "built" =>
        \A pos \in CellInputs :
            LET cell == position_to_cell(pos, probe.cell_size)
            IN  /\ InFloorCell(pos[1], cell[1], probe.cell_size)
                /\ InFloorCell(pos[2], cell[2], probe.cell_size)

\* C24 (amended): a position is assigned the cell of the quotients cut toward
\* zero: floor for coordinates >= 0, ceiling for negative ones, so the cell 0
\* covers the open interval (-cell_size, cell_size) on each axis.
C24_CellIsTruncation ==
    probe.stage = "built" =>
        \A pos \in CellInputs :
            LET cell == position_to_cell(pos, probe.cell_size)
            IN  /\ InTruncatedCell(pos[1], cell[1], probe.cell_size)
                /\ InTruncatedCell(pos[2], cell[2], probe.cell_size)

\* a scene built with a prop at x = -1, which is assigned the column 0, and at
\* y = -5, which is assigned the row -1 of cells of size 4
C24_Witness ==
    /\ probe.stage = "built"
    /\ probe.cell_size = U(4)
    /\ \E i \in 1..Len(probe.objects) :
          /\ probe.objects[i].pos = <<U(0 - 1), U(0 - 5)>>
          /\ i \in Range(at_single_cell(probe.grid, <<0, 0 - 1>>))

\* C27: a single HashGridScene::at or at_mut query yields each stored prop at
\* most once.
C27_YieldedAtMostOnce ==
    probe.stage = "queried" =>
        \A j, k \in 1..Len(probe.grid_at) :
            probe.grid_at[j] = probe.grid_at[k] => j = k

---------------------------------------------------------------------------
(* The game: GameController::new on a level, then key events and updates.  *)
(* One update is GameController::update, run step by step in its order:    *)
(* pumps, the four borders, the walls, the pumps, the mines, the gems, the  *)
(* finish flag and at last BallController::update.                          *)

\* updates run in one game
MaxTicks == 6

\* key events handled in one game
MaxEvents == 2

\* `ticks` = 60 * dt, where dt = 1/ups and main.rs sets ups to 120
Factors == {(60 * Scale) \div 120}

WallInfo(x, y, w, h) == [type |-> "Wall", pos |-> <<U(x), U(y)>>, dim |-> <<U(w), U(h)>>]

\* an open room: a pump, a gem and the finish flag within reach of the ball
LevelOpen ==
    [width |-> U(64), height |-> U(64), ball_pos |-> <<U(32), U(32)>>,
     walls |-> <<>>, pumps |-> << <<U(32), U(32)>> >>, mines |-> <<>>,
     gems |-> << <<U(34), U(32)>> >>,
     finish |-> << [pos |-> <<U(30), U(32)>>, gems_required |-> 1] >>]

\* a gap narrower than the ball between two walls, with mines in it
LevelCorridor ==
    [width |-> U(60), height |-> U(60), ball_pos |-> <<U(30), U(30)>>,
     walls |-> << WallInfo(0, 0, 29, 60), WallInfo(31, 0, 29, 60) >>,
     pumps |-> <<>>,
     mines |-> << <<U(30), U(30)>>, <<U(30), U(31)>>, <<U(30), U(29)>>, <<U(30), U(32)>> >>,
     gems |-> <<>>, finish |-> <<>>]

\* a narrow map: the ball touches the right border and overlaps the upper one
LevelBorders ==
    [width |-> U(30), height |-> U(40), ball_pos |-> <<U(16), U(12)>>,
     walls |-> <<>>, pumps |-> <<>>, mines |-> << <<U(16), U(12)>> >>,
     gems |-> << <<U(16), U(30)>> >>,
     finish |-> << [pos |-> <<U(16), U(14)>>, gems_required |-> 0] >>]

\* the ball overlaps the corner of one wall and the side of another
LevelWalls ==
    [width |-> U(80), height |-> U(80), ball_pos |-> <<U(32), U(34)>>,
     walls |-> << WallInfo(40, 40, 10, 10), WallInfo(10, 20, 10, 30) >>,
     pumps |-> << <<U(60), U(60)>> >>, mines |-> <<>>,
     gems |-> << <<U(32), U(40)>>, <<U(70), U(70)>> >>,
     finish |-> << [pos |-> <<U(32), U(30)>>, gems_required |-> 2] >>]

\* the finish flag under the ball asks for two gems: one under the ball, the
\* other just out of reach to the right (a hundredth of a unit)
LevelGems ==
    [width |-> U(80), height |-> U(80), ball_pos |-> <<U(32), U(32)>>,
     walls |-> <<>>, pumps |-> <<>>, mines |-> <<>>,
     gems |-> << <<U(32), U(32)>>, <<U(59) + Scale \div 100, U(32)>> >>,
     finish |-> << [pos |-> <<U(32), U(32)>>, gems_required |-> 2] >>]

\* one gem and, a little farther, the finish flag, both just out of reach
LevelFar ==
    [width |-> U(80), height |-> U(80), ball_pos |-> <<U(32), U(32)>>,
     walls |-> <<>>, pumps |-> <<>>, mines |-> <<>>,
     gems |-> << <<U(59) + Scale \div 100, U(32)>> >>,
     finish |-> << [pos |-> <<U(59) + (4 * Scale) \div 100, U(32)>>, gems_required |-> 1] >>]

\* nine pumps side by side, all within reach of the ball
LevelPumps ==
    [width |-> U(80), height |-> U(80), ball_pos |-> <<U(32), U(32)>>,
     walls |-> <<>>, pumps |-> [i \in 1..9 |-> <<U(27 + i), U(32)>>], mines |-> <<>>,
     gems |-> <<>>, finish |-> <<>>]

\* eleven pumps and a mine within reach of the ball, which overlaps a wall on
\* its right by one unit
LevelRevive ==
    [width |-> U(80), height |-> U(80), ball_pos |-> <<U(32), U(32)>>,
     walls |-> << WallInfo(45, 20, 10, 30) >>,
     pumps |-> [i \in 1..11 |-> <<U(26 + i), U(32)>>], mines |-> << <<U(32), U(32)>> >>,
     gems |-> <<>>, finish |-> <<>>]

\* nine pumps within reach of a ball near the left border, and a gem and the
\* finish flag out of reach on its right
LevelDeadReach ==
    [width |-> U(80), height |-> U(80), ball_pos |-> <<U(16), U(32)>>,
     walls |-> <<>>, pumps |-> [i \in 1..9 |-> <<U(11 + i), U(32)>>], mines |-> <<>>,
     gems |-> << <<U(49), U(32)>> >>,
     finish |-> << [pos |-> <<U(49), U(32)>>, gems_required |-> 1] >>]

Levels ==
    {LevelOpen, LevelCorridor, LevelBorders, LevelWalls, LevelGems, LevelFar, LevelPumps,
     LevelRevive, LevelDeadReach}

Keys == {"right", "left", "up", "down"}

\* the controller made of the variables
BC ==
    [ball |-> ball, thrust |-> thrust, acc_overlaps |-> acc_overlaps,
     num_overlaps |-> num_overlaps, num_gems |-> num_gems]

SetBC(bc) ==
    /\ ball' = bc.ball
    /\ thrust' = bc.thrust
    /\ acc_overlaps' = bc.acc_overlaps
    /\ num_overlaps' = bc.num_overlaps
    /\ num_gems' = bc.num_gems

\* GameController::new
Init ==
    /\ level \in Levels
    /\ LET bc == BallController_new(Ball_with_default_size(level.ball_pos))
       IN  /\ ball = bc.ball
           /\ thrust = bc.thrust
           /\ acc_overlaps = bc.acc_overlaps
           /\ num_overlaps = bc.num_overlaps
           /\ num_gems = bc.num_gems
    /\ pumps = [i \in 1..Len(level.pumps) |-> 0]
    /\ gems = [i \in 1..Len(level.gems) |-> FALSE]
    /\ finish = FALSE
    /\ pc = "idle"
    /\ idx = 0
    /\ ticks \in Factors
    /\ nticks = 0
    /\ nevents = 0
    /\ probe = [stage |-> "game", sum |-> default_vector2, num |-> 0, dead |-> FALSE]

\* BallController::event on a press or a release of a direction key
KeyEvent(k, pressed) ==
    /\ pc = "idle"
    /\ nevents < MaxEvents
    /\ thrust' = [thrust EXCEPT ![k] = pressed]
    /\ nevents' = nevents + 1
    /\ UNCHANGED <<level, ball, acc_overlaps, num_overlaps, num_gems, pumps, gems,
                   finish, pc, idx, ticks, nticks, probe>>

\* GameController::update begins: every pump's update
UpdatePumps ==
    /\ pc = "idle"
    /\ nticks < MaxTicks
    /\ pumps' = [i \in 1..Len(pumps) |-> Pump_update(pumps[i], ticks)]
    /\ pc' = "left_border"
    /\ probe' = [probe EXCEPT !.sum = default_vector2, !.num = 0, !.dead = is_dead(BC)]
    /\ UNCHANGED <<level, ball, thrust, acc_overlaps, num_overlaps, num_gems, gems,
                   finish, idx, ticks, nticks, nevents>>

HandleBorder(at, border, next) ==
    /\ pc = at
    /\ SetBC(handle_collision_with(BC, border))
    /\ pc' = next
    /\ idx' = 1
    /\ UNCHANGED <<level, pumps, gems, finish, ticks, nticks, nevents, probe>>

HandleLeftBorder == HandleBorder("left_border", left_border(level), "right_border")

HandleRightBorder == HandleBorder("right_border", right_border(level), "up_border")

HandleUpBorder == HandleBorder("up_border", up_border(level), "down_border")

HandleDownBorder == HandleBorder("down_border", down_border(level), "walls")

\* one turn of `for wall in self.walls.at_mut(..)`
HandleWall ==
    /\ pc = "walls"
    /\ idx <= Len(level.walls)
    /\ SetBC(handle_collision_with(BC, level.walls[idx]))
    /\ LET collision == test_circle_collision(level.walls[idx], ball.pos, Radius(BC))
       IN  probe' = IF collision.yes
                    THEN [probe EXCEPT !.sum = VAdd(@, collision.overlap), !.num = @ + 1]
                    ELSE probe
    /\ idx' = idx + 1
    /\ UNCHANGED <<level, pumps, gems, finish, pc, ticks, nticks, nevents>>

\* BallController::handle_simple_collision_with on pump idx
HandlePump ==
    /\ pc = "pumps"
    /\ idx <= Len(level.pumps)
    /\ LET after == IF Pump_test_circle_collision_simple(level.pumps[idx], ball.pos, Radius(BC))
                    THEN Pump_on_collision_simple(BC, pumps[idx])
                    ELSE <<BC, pumps[idx]>>
       IN  /\ SetBC(after[1])
           /\ pumps' = [pumps EXCEPT ![idx] = after[2]]
    /\ idx' = idx + 1
    /\ UNCHANGED <<level, gems, finish, pc, ticks, nticks, nevents, probe>>

\* BallController::handle_simple_collision_with on mine idx
HandleMine ==
    /\ pc = "mines"
    /\ idx <= Len(level.mines)
    /\ SetBC(IF Mine_test_circle_collision_simple(level.mines[idx], ball.pos, Radius(BC))
             THEN Mine_on_collision_simple(BC) ELSE BC)
    /\ idx' = idx + 1
    /\ UNCHANGED <<level, pumps, gems, finish, pc, ticks, nticks, nevents, probe>>

\* BallController::handle_simple_collision_with on gem idx
HandleGem ==
    /\ pc = "gems"
    /\ idx <= Len(level.gems)
    /\ LET after == IF Gem_test_circle_collision_simple(level.gems[idx], gems[idx],
                                                        ball.pos, Radius(BC))
                    THEN Gem_on_collision_simple(BC, gems[idx])
                    ELSE <<BC, gems[idx]>>
       IN  /\ SetBC(after[1])
           /\ gems' = [gems EXCEPT ![idx] = after[2]]
    /\ idx' = idx + 1
    /\ UNCHANGED <<level, pumps, finish, pc, ticks, nticks, nevents, probe>>

\* the entities the loop at pc runs over
LoopList(at) ==
    CASE at = "walls" -> level.walls
      [] at = "pumps" -> level.pumps
      [] at = "mines" -> level.mines
      [] at = "gems"  -> level.gems

LoopNext(at) ==
    CASE at = "walls" -> "pumps"
      [] at = "pumps" -> "mines"
      [] at = "mines" -> "gems"
      [] at = "gems"  -> "finish"

\* a loop of update has run over all its entities: on to the next statement
LoopDone ==
    /\ pc \in {"walls", "pumps", "mines", "gems"}
    /\ idx > Len(LoopList(pc))
    /\ pc' = LoopNext(pc)
    /\ idx' = 1
    /\ UNCHANGED <<level, ball, thrust, acc_overlaps, num_overlaps, num_gems, pumps,
                   gems, finish, ticks, nticks, nevents, probe>>

\* the finish flag step with a flag that comes back when it is not in contact
HandleFinish_respawn ==
    /\ pc = "finish"
    /\ finish' = IF /\ Len(level.finish) > 0
                    /\ Finish_test_circle_collision_simple(level.finish[1].pos, finish,
                                                           ball.pos, Radius(BC))
                 THEN Finish_on_collision_simple(BC, finish, level.finish[1].gems_required)
                 ELSE FALSE
    /\ pc' = "ball"
    /\ UNCHANGED <<level, ball, thrust, acc_overlaps, num_overlaps, num_gems, pumps,
                   gems, idx, ticks, nticks, nevents, probe>>

\* `if let Some(finish) = ..`: handle_simple_collision_with on the finish flag
HandleFinish ==
    /\ pc = "finish"
    /\ finish' = IF /\ Len(level.finish) > 0
                    /\ Finish_test_circle_collision_simple(level.finish[1].pos, finish,
                                                           ball.pos, Radius(BC))
                 THEN Finish_on_collision_simple(BC, finish, level.finish[1].gems_required)
                 ELSE finish
    /\ pc' = "ball"
    /\ UNCHANGED <<level, ball, thrust, acc_overlaps, num_overlaps, num_gems, pumps,
                   gems, idx, ticks, nticks, nevents, probe>>

\* self.ball.update(ticks), which ends the update
BallUpdate ==
    /\ pc = "ball"
    /\ SetBC(BallController_update(BC, ticks))
    /\ pc' = "idle"
    /\ idx' = 0
    /\ nticks' = nticks + 1
    /\ UNCHANGED <<level, pumps, gems, finish, ticks, nevents, probe>>

Next ==
    \/ \E k \in Keys, pressed \in BOOLEAN : KeyEvent(k, pressed)
    \/ UpdatePumps
    \/ HandleLeftBorder
    \/ HandleRightBorder
    \/ HandleUpBorder
    \/ HandleDownBorder
    \/ HandleWall
    \/ HandlePump
    \/ HandleMine
    \/ HandleGem
    \/ LoopDone
    \/ HandleFinish
    \/ BallUpdate

Spec == Init /\ [][Next]_vars

(* Claims about the tick, checked under Spec *)

\* C1: at the start of every tick, before the collision pass, the
\* accumulator is zero: num_overlaps = 0 and acc_overlaps = (0, 0).
C1_AccumulatorZeroAtTickStart ==
    pc = "idle" => (num_overlaps = 0 /\ acc_overlaps = default_vector2)

\* C2: the step that handles one wall leaves the ball's position, velocity
\* and size as they are; when the wall collides with the ball it adds the
\* overlap to acc_overlaps and one to num_overlaps, and otherwise it leaves
\* the accumulator alone.
C2_WallOnlyRegisters ==
    [][(pc = "walls" /\ idx <= Len(level.walls)) =>
          LET collision == test_circle_collision(level.walls[idx], ball.pos, Radius(BC))
          IN  /\ ball' = ball
              /\ IF collision.yes
                 THEN /\ acc_overlaps' = VAdd(acc_overlaps, collision.overlap)
                      /\ num_overlaps' = num_overlaps + 1
                 ELSE /\ acc_overlaps' = acc_overlaps
                      /\ num_overlaps' = num_overlaps]_vars

\* a wall has collided with a moving ball and the walls are still being handled
C2_Witness ==
    /\ pc = "walls"
    /\ idx > 1
    /\ num_overlaps > 0
    /\ acc_overlaps # default_vector2
    /\ ball.vel # default_vector2

\* the ball's circle overlaps the level's finish flag
FinishOverlaps ==
    /\ Len(level.finish) > 0
    /\ Finish_test_circle_collision_simple(level.finish[1].pos, FALSE, ball.pos, Radius(BC))

\* C12: picked_up of the finish flag changes only in the step that handles the
\* finish flag, only from false to true, and only when the ball's circle
\* overlaps the flag and items() = gems_required; a contact with any other
\* item count changes neither the flag nor the ball.
C12_FinishOnlyOnExactCount ==
    [][/\ finish' # finish =>
             /\ pc = "finish"
             /\ ~finish /\ finish'
             /\ FinishOverlaps
             /\ items(BC) = level.finish[1].gems_required
       /\ (pc = "finish" /\ FinishOverlaps /\ items(BC) # level.finish[1].gems_required) =>
             /\ finish' = finish
             /\ ball' = ball
             /\ num_gems' = num_gems
             /\ acc_overlaps' = acc_overlaps
             /\ num_overlaps' = num_overlaps]_vars

\* the finish flag has just been picked up with exactly the gems it requires
C12_Witness ==
    /\ pc = "ball"
    /\ finish
    /\ level.finish[1].gems_required > 0
    /\ items(BC) = level.finish[1].gems_required

\* C13: in every tick in which, after the gem pass, the ball's circle overlaps
\* the finish flag not yet picked up and items() = gems_required, the flag is
\* picked up by the step that handles it and is still picked up when the tick
\* ends, whether the last gem was collected in this tick or an earlier one.
C13_FinishTriggersOnceCountMet ==
    [][/\ (/\ pc = "finish"
           /\ ~finish
           /\ FinishOverlaps
           /\ items(BC) = level.finish[1].gems_required) => finish'
       /\ (pc = "ball" /\ finish) => finish']_vars

\* the ball met the flag with one gem of two in the first tick, collected the
\* second gem in a later tick and the flag is picked up
C13_Witness ==
    /\ level = LevelGems
    /\ pc = "ball"
    /\ nticks >= 1
    /\ items(BC) = 2
    /\ finish

\* the gems picked up so far
PickedUpGems == {i \in 1..Len(gems) : gems[i]}

\* the circles a picked-up gem is asked about: the ball's, and circles of
\* several radii at the gem itself
GemQueries(i) ==
    {<<ball.pos, Radius(BC)>>} \cup {<<level.gems[i], r>> : r \in {0, Radius(BC), U(20)}}

\* C14: items() is the number of gems picked up (each gem calls pick_up at most
\* once); a picked-up gem reports no collision whatever the circle; and
\* on_collision_simple on a picked-up gem or finish flag leaves picked_up true
\* and the ball, its item count included, as it was.
C14_GemOneShot ==
    /\ items(BC) = Cardinality(PickedUpGems)
    /\ \A i \in PickedUpGems :
          /\ \A q \in GemQueries(i) :
                ~Gem_test_circle_collision_simple(level.gems[i], gems[i], q[1], q[2])
          /\ Gem_on_collision_simple(BC, gems[i]) = <<BC, TRUE>>
    /\ finish =>
          /\ Finish_on_collision_simple(BC, finish, level.finish[1].gems_required) = TRUE
          /\ ~Finish_test_circle_collision_simple(level.finish[1].pos, finish,
                                                  ball.pos, Radius(BC))

\* a tick after a gem was picked up, the gems are handled again while the ball
\* still lies over that gem
C14_Witness ==
    /\ pc = "gems"
    /\ idx > 1
    /\ nticks >= 1
    /\ gems[1]
    /\ items(BC) = 1
    /\ Gem_test_circle_collision_simple(level.gems[1], FALSE, ball.pos, Radius(BC))

\* C15: picked_up of every gem and of the finish flag only goes from false to
\* true: once true it is true after every step.
C15_PickedUpIsMonotone ==
    [][/\ Len(gems') = Len(gems)
       /\ \A i \in 1..Len(gems) : gems[i] => gems'[i]
       /\ finish => finish']_vars

\* two ticks on, a gem and the finish flag picked up earlier are still picked up
C15_Witness ==
    /\ nticks >= 2
    /\ pc = "idle"
    /\ Len(gems) > 0
    /\ gems[1]
    /\ finish

---------------------------------------------------------------------------
(* A pump on its own: PumpUpdate is Pump::update with the frame factor,     *)
(* PumpContact is Pump::on_collision_simple with a ball.  Each records the  *)
(* pump and the ball as they were before it.                                *)

\* Pump::update calls in one run
MaxPumpSteps == 46

\* the frame factors 60 * dt for dt = 1/120, 1/60 and 1/20
PumpFactors == {Scale \div 2, Scale, 3 * Scale}

\* Pump::new
Pump_new == [time_to_pump |-> 0]

InitPump ==
    /\ GameIdle
    /\ \E f \in PumpFactors, size \in {BALL_DEFAULT_SIZE, U(5)} :
          probe = [stage |-> "pump", factor |-> f, steps |-> 0, last |-> "new",
                   time_to_pump |-> Pump_new.time_to_pump,
                   bc |-> BallController_new([pos |-> <<0, 0>>, vel |-> <<0, 0>>,
                                              size |-> size]),
                   time_before |-> 0, bc_before |-> <<>>]

PumpUpdate ==
    /\ probe.stage = "pump"
    /\ probe.steps < MaxPumpSteps
    /\ probe' = [probe EXCEPT
                    !.steps = @ + 1,
                    !.last = "update",
                    !.time_before = probe.time_to_pump,
                    !.bc_before = probe.bc,
                    !.time_to_pump = Pump_update(probe.time_to_pump, probe.factor)]
    /\ UNCHANGED gameVars

PumpContact ==
    /\ probe.stage = "pump"
    /\ LET after == Pump_on_collision_simple(probe.bc, probe.time_to_pump)
       IN  probe' = [probe EXCEPT
                        !.last = "contact",
                        !.time_before = probe.time_to_pump,
                        !.bc_before = probe.bc,
                        !.bc = after[1],
                        !.time_to_pump = after[2]]
    /\ UNCHANGED gameVars

NextPump == PumpUpdate \/ PumpContact

SpecPump == InitPump /\ [][NextPump]_vars

(* Claims about the pump, checked under SpecPump *)

\* what a contact leaves alone whatever it does: all of the ball but its size
ContactKeepsRest ==
    probe.bc = [probe.bc_before EXCEPT !.ball.size = probe.bc.ball.size]

\* C16 (as claimed): a contact with time_to_pump <= 0 heals the ball by exactly
\* 1.0 and leaves the cooldown at 22; a contact with time_to_pump > 0 changes
\* neither the ball nor the pump.
C16_PumpHealsAndResets ==
    probe.last = "contact" =>
        IF probe.time_before <= 0
        THEN /\ probe.bc.ball.size = probe.bc_before.ball.size + U(1)
             /\ ContactKeepsRest
             /\ probe.time_to_pump = U(22)
        ELSE /\ probe.bc = probe.bc_before
             /\ probe.time_to_pump = probe.time_before

\* C16 (amended): a contact with time_to_pump <= 0 heals the ball by exactly 1.0
\* and adds 22 to time_to_pump, so the cooldown afterwards is 22 less what
\* Pump::update overshot zero by: more than 22 - factor, at most 22, and 22
\* exactly when time_to_pump was 0; a contact with time_to_pump > 0 changes
\* neither the ball nor the pump.
C16_PumpHealsAndAdds ==
    probe.last = "contact" =>
        IF probe.time_before <= 0
        THEN /\ probe.bc.ball.size = probe.bc_before.ball.size + U(1)
             /\ ContactKeepsRest
             /\ probe.time_to_pump = probe.time_before + U(22)
             /\ probe.time_to_pump > U(22) - probe.factor
             /\ probe.time_to_pump <= U(22)
        ELSE /\ probe.bc = probe.bc_before
             /\ probe.time_to_pump = probe.time_before

\* Pump::update has overshot zero and the contact leaves a cooldown short of 22
C16_Witness ==
    /\ probe.stage = "pump"
    /\ probe.last = "contact"
    /\ probe.time_before < 0
    /\ probe.time_to_pump < U(22)
    /\ probe.bc.ball.size = probe.bc_before.ball.size + U(1)

---------------------------------------------------------------------------
(* Claims about mines and the ball's size, checked under Spec *)

\* the step that handles one mine is about to run, and the ball overlaps it
MineStep == pc = "mines" /\ idx <= Len(level.mines)

MineOverlaps ==
    Mine_test_circle_collision_simple(level.mines[idx], ball.pos, Radius(BC))

\* C17 (as claimed): in every tick, the step that handles a mine the ball's
\* circle overlaps reduces the ball's size by 2.5.
C17_MineDamagesByTwoAndAHalf ==
    [][(MineStep /\ MineOverlaps) =>
          ball'.size = ball.size - (25 * Scale) \div 10]_vars

\* C17 (amended): in every tick, the step that handles a mine the ball's circle
\* overlaps takes 2.5 off the ball's size, stopping at 0: the size becomes
\* max(0, size - 2.5); nothing else of the ball changes, nor does the mine; a
\* mine the ball does not overlap changes nothing.
C17_MineDamagesDownToZero ==
    [][MineStep =>
          /\ IF MineOverlaps
             THEN LET less == ball.size - (25 * Scale) \div 10
                  IN  ball' = [ball EXCEPT !.size = IF less > 0 THEN less ELSE 0]
             ELSE ball' = ball
          /\ UNCHANGED <<level, thrust, acc_overlaps, num_overlaps, num_gems>>]_vars

\* after two ticks or more of contact the mines have taken all of the ball's
\* size, and the ball still overlaps the mine handled next
C17_Witness ==
    /\ MineStep
    /\ idx > 1
    /\ nticks >= 2
    /\ ball.size = 0
    /\ MineOverlaps

---------------------------------------------------------------------------
(* Ball::is_dead on its own: TestDead applies it to a ball of a size drawn  *)
(* from a bounded set.                                                      *)

\* sizes run over the quarters 0, 0.25, 0.5, ... (MaxSize + 1 of them)
MaxSize == 160

\* the quarters, and the sizes next to 4 and to CAPACITY + 2 in the last place
ProbeSizes ==
    {k * (Scale \div 4) : k \in 0..MaxSize}
        \cup {U(4) - 1, U(4) + 1, BALL_CAPACITY + U(2) - 1, BALL_CAPACITY + U(2) + 1}

InitDead ==
    /\ GameIdle
    /\ \E size \in ProbeSizes :
          probe = [stage |-> "in", dead |-> FALSE,
                   ball |-> [pos |-> <<0, 0>>, vel |-> <<0, 0>>, size |-> size]]

TestDead ==
    /\ probe.stage = "in"
    /\ probe' = [probe EXCEPT !.stage = "tested", !.dead = Ball_is_dead(probe.ball)]
    /\ UNCHANGED gameVars

NextDead == TestDead

SpecDead == InitDead /\ [][NextDead]_vars

\* C18: Ball::is_dead is false for every size in [4, 36], both ends included,
\* and true for every size below 4 or above 36.
C18_DeadOutsideFourToThirtySix ==
    probe.stage = "tested" =>
        (probe.dead <=> (probe.ball.size < U(4) \/ probe.ball.size > U(36)))

\* the two ends of the range, where the ball is alive
C18_Witness ==
    /\ probe.stage = "tested"
    /\ probe.ball.size \in {U(4), U(36)}
    /\ ~probe.dead

---------------------------------------------------------------------------
(* The range of the ball's size over the game, checked under Spec *)

\* C19 (as claimed): from the default size 28, after any sequence of game
\* ticks, the ball's size stays within (0, CAPACITY + 2] = (0, 36].
C19_SizeWithinCapacity ==
    ball.size > 0 /\ ball.size <= BALL_CAPACITY + U(2)

\* C19 (amended): the size never goes below 0, and it changes only by the
\* three bounded operations: a pump's heal adds 1 (with no upper limit), a
\* mine's damage takes 2.5 off down to 0, and the update of a ball that is not
\* dead takes the thrust effort off down to 0.
C19_SizeNeverNegative ==
    [][/\ ball'.size >= 0
       /\ ball'.size # ball.size =>
             \/ pc = "pumps" /\ ball'.size = ball.size + U(1)
             \/ pc = "mines"
                  /\ ball'.size = f32_max(0, ball.size - (25 * Scale) \div 10)
             \/ pc = "ball" /\ ~Ball_is_dead(ball)
                  /\ ball'.size = f32_max(0, ball.size + EffortDecay(thrust, ticks))]_vars

\* after a tick in reach of nine pumps the size is above CAPACITY + 2
C19_Witness ==
    /\ pc = "idle"
    /\ nticks >= 1
    /\ ball.size > BALL_CAPACITY + U(2)

---------------------------------------------------------------------------
(* camera.rs: the camera of a game or of an editor, kept in probe.camera.   *)
(* It is built by Camera::default and focus_on, and then moved by           *)
(* soft_focus_on (every game update) or by pan and clamp_to_bounds (the     *)
(* editor), over a map at least as large as the viewport.                   *)

\* ::WIDTH and ::HEIGHT, the logical size of the screen
WIDTH == 320

HEIGHT == 200

MARGIN_W == U(120)

MARGIN_H == U(80)

\* focus points and pan deltas lie on a grid of 20 units, MaxFocus steps wide
MaxFocus == 20

\* the camera is moved MaxCameraSteps times at most
MaxCameraSteps == 2

FocusGrid == 20 * Scale

FocusPoints == {<<i * FocusGrid, j * FocusGrid>> : i, j \in {0, 1, 6, 10, 14, 15, 16, MaxFocus}}

PanDeltas == {<<i * FocusGrid, j * FocusGrid>> : i, j \in {0 - MaxFocus, 0 - 3, 0, 5}}

\* Map::dimensions_f32 of maps no smaller than the viewport
CameraMaps == {<<U(WIDTH), U(HEIGHT)>>, <<U(400), U(300)>>, <<U(640), U(200)>>}

\* util::clamp
clamp(v, min, max) == f32_max(min, f32_min(max, v))

\* Camera::new
Camera_new(pos, width, height) ==
    [pos |-> pos, width |-> width, height |-> height,
     half_width |-> FDivInt(width, 2), half_height |-> FDivInt(height, 2)]

\* Camera::default
Camera_default == Camera_new(<<0, 0>>, U(WIDTH), U(HEIGHT))

\* Camera::focus_point
Camera_focus_point(c, focus, dim) ==
    <<clamp(focus[1], c.half_width, FSub(dim[1], c.half_width)),
      clamp(focus[2], c.half_height, FSub(dim[2], c.half_height))>>

\* Camera::focus_on
Camera_focus_on(c, focus, map_dim) ==
    LET point == Camera_focus_point(c, focus, map_dim)
    IN  [c EXCEPT !.pos = <<FSub(point[1], c.half_width), FSub(point[2], c.half_height)>>]

\* Camera::clamp_to_bounds
Camera_clamp_to_bounds(c, map_dim) ==
    [c EXCEPT !.pos = <<clamp(c.pos[1], 0, FSub(map_dim[1], c.half_width)),
                        clamp(c.pos[2], 0, FSub(map_dim[2], c.half_height))>>]

\* one axis of Camera::soft_focus_on, before the clamp
SoftFocusAxis(p, f, extent, margin) ==
    LET r1 == FSub(FSub(f, p), margin)
        p1 == IF FLt(r1, 0) THEN FAdd(p, r1) ELSE p
        r2 == FSub(f, FSub(FAdd(p1, extent), margin))
    IN  IF FGt(r2, 0) THEN FAdd(p1, r2) ELSE p1

\* Camera::soft_focus_on
Camera_soft_focus_on(c, focus, map_dim) ==
    Camera_clamp_to_bounds(
        [c EXCEPT !.pos = <<SoftFocusAxis(c.pos[1], focus[1], c.width, MARGIN_W),
                            SoftFocusAxis(c.pos[2], focus[2], c.height, MARGIN_H)>>],
        map_dim)

\* Camera::pan
Camera_pan(c, v) == [c EXCEPT !.pos = <<FAdd(c.pos[1], v[1]), FAdd(c.pos[2], v[2])>>]

\* GameController::new and EditorController::new: the default camera focused on
\* the ball's position
InitCamera ==
    /\ GameIdle
    /\ \E map_dim \in CameraMaps, ball_pos \in FocusPoints :
          probe = [stage |-> "camera", map_dim |-> map_dim, last |-> "focus_on",
                   steps |-> 0, focus |-> ball_pos,
                   camera |-> Camera_focus_on(Camera_default, ball_pos, map_dim)]

\* the end of GameController::update
SoftFocusOn(focus) ==
    /\ probe.stage = "camera"
    /\ probe.steps < MaxCameraSteps
    /\ probe' = [probe EXCEPT !.last = "soft_focus_on", !.steps = @ + 1, !.focus = focus,
                              !.camera = Camera_soft_focus_on(@, focus, probe.map_dim)]
    /\ UNCHANGED gameVars

\* the editor's panning with the mouse
PanCamera(delta) ==
    /\ probe.stage = "camera"
    /\ probe.steps < MaxCameraSteps
    /\ probe' = [probe EXCEPT !.last = "pan", !.steps = @ + 1,
                              !.camera = Camera_clamp_to_bounds(Camera_pan(@, delta),
                                                                probe.map_dim)]
    /\ UNCHANGED gameVars

NextCamera ==
    \/ \E focus \in FocusPoints : SoftFocusOn(focus)
    \/ \E delta \in PanDeltas : PanCamera(delta)

SpecCamera == InitCamera /\ [][NextCamera]_vars

\* the viewport of the camera lies within the map
ViewportWithinMap(c, map_dim) ==
    /\ 0 <= c.pos[1] /\ c.pos[1] + c.width <= map_dim[1]
    /\ 0 <= c.pos[2] /\ c.pos[2] + c.height <= map_dim[2]

\* C20: after Camera::soft_focus_on, for any previous camera position and any
\* focus point, on a map at least as large as the viewport, the viewport does
\* not cross the map's boundaries: 0 <= pos.x and pos.x + width <= map_dim.x,
\* and likewise for y with height.
C20_SoftFocusKeepsViewportInMap ==
    (probe.stage = "camera" /\ probe.last = "soft_focus_on") =>
        ViewportWithinMap(probe.camera, probe.map_dim)

---------------------------------------------------------------------------
(* Claims about BallController::update at the end of a tick, under Spec *)

\* the step that runs BallController::update is about to run on a live ball
UpdateStep == pc = "ball" /\ ~is_dead(BC)

\* BallController::update after its collision part, on the controller r
UpdateAfterResolve(r, factor) ==
    LET b1 == ApplyThrust(r.ball, r.thrust, factor)
        b2 == IF FGt(RawNormSq(b1.vel), TOO_MUCH_SPEED_SQR)
              THEN Ball_decay_velocity(b1, 5) ELSE b1
        b3 == Ball_update_position(b2, factor)
    IN  [r EXCEPT !.ball = Ball_add_size(b3, EffortDecay(r.thrust, factor))]

\* one bounce on the overlap: the position translated by it, the velocity
\* bounced on it and damped by 0.6%, the accumulator cleared
OneBounce(bc, overlap) ==
    [bc EXCEPT !.ball = Ball_decay_velocity(
                            [bc.ball EXCEPT !.pos = VAdd(bc.ball.pos, overlap),
                                            !.vel = rigid_bounce(bc.ball.vel, overlap)], 6),
               !.acc_overlaps = default_vector2,
               !.num_overlaps = 0]

\* the controller after the step
BCNext ==
    [ball |-> ball', thrust |-> thrust', acc_overlaps |-> acc_overlaps',
     num_overlaps |-> num_overlaps', num_gems |-> num_gems']

\* C21: if k >= 1 walls reported overlaps o1..ok in the tick's collision pass
\* and the ball is not dead, the update resolves them as one bounce on
\* (o1 + ... + ok) / k before the rest of the update; with k = 0 there is no
\* bounce, no damping and the accumulator is left as it is.
C21_UpdateResolvesTickOverlaps ==
    [][UpdateStep =>
          BCNext = UpdateAfterResolve(
                       IF probe.num >= 1
                       THEN OneBounce(BC, VDivInt(probe.sum, probe.num))
                       ELSE BC,
                       ticks)]_vars

\* the order of the steps of a tick: from each position of GameController::update
\* to the next one
TickOrder ==
    {<<"idle", "left_border">>, <<"left_border", "right_border">>,
     <<"right_border", "up_border">>, <<"up_border", "down_border">>,
     <<"down_border", "walls">>, <<"walls", "pumps">>, <<"pumps", "mines">>,
     <<"mines", "gems">>, <<"gems", "finish">>, <<"finish", "ball">>,
     <<"ball", "idle">>}

\* C22: every tick runs its steps in a fixed order: the borders, then walls,
\* pumps, mines, gems and the finish flag, then BallController::update; and
\* inside the update of a live ball the pending contacts are resolved, then the
\* thrust is applied, then the speed is capped, then the position is integrated
\* with that velocity, then the size decays.
C22_StepsInFixedOrder ==
    [][/\ pc' # pc => <<pc, pc'>> \in TickOrder
       /\ UpdateStep =>
             LET r  == ResolveOverlaps(BC)
                 b1 == ApplyThrust(r.ball, thrust, ticks)
             IN  /\ ball'.vel = IF FGt(RawNormSq(b1.vel), TOO_MUCH_SPEED_SQR)
                                THEN Ball_decay_velocity(b1, 5).vel ELSE b1.vel
                 /\ ball'.pos = VAdd(r.ball.pos, VScale(ball'.vel, ticks))
                 /\ ball'.size = f32_max(0, FAdd(ball.size, EffortDecay(thrust, ticks)))]_vars

\* after two ticks in a level with walls and no mines a thrusting ball has
\* bounced off a wall, has moved and has lost size to the effort
C22_Witness ==
    /\ pc = "idle"
    /\ nticks >= 2
    /\ Len(level.walls) > 0
    /\ Len(level.mines) = 0
    /\ TotalEffort(thrust) > 0
    /\ ball.vel # default_vector2
    /\ ball.pos # level.ball_pos
    /\ ball.size < BALL_DEFAULT_SIZE

\* the overlap BallController::update passes to correct_and_rigid_bounce
AverageOverlap == VDivInt(acc_overlaps, num_overlaps)

\* C23 (as claimed): the overlap passed to rigid_bounce by the update is never
\* (0, 0): whenever num_overlaps > 0 at update time, acc_overlaps / num_overlaps
\* is nonzero.
C23_AverageOverlapNonzero ==
    (UpdateStep /\ num_overlaps > 0) => AverageOverlap # default_vector2

\* C23 (amended): the overlap passed to rigid_bounce can be (0, 0), with walls
\* on opposite sides of the ball; the update then neither moves the ball for
\* the contact nor turns its velocity: it only damps the velocity by 0.6% and
\* clears the accumulator before the rest of the update.
C23_ZeroOverlapOnlyDamps ==
    [][(UpdateStep /\ num_overlaps > 0 /\ AverageOverlap = default_vector2) =>
          BCNext = UpdateAfterResolve(
                       [BC EXCEPT !.ball = Ball_decay_velocity(ball, 6),
                                  !.acc_overlaps = default_vector2,
                                  !.num_overlaps = 0],
                       ticks)]_vars

\* a moving ball between two walls that overlap it by as much on either side
C23_Witness ==
    /\ UpdateStep
    /\ num_overlaps = 2
    /\ acc_overlaps = default_vector2
    /\ ball.vel[2] # 0

---------------------------------------------------------------------------
(* Claims about a dead ball, checked under Spec *)

\* a tick has ended: GameController::update has returned at least once and the
\* next one has not begun
TickEnd == pc = "idle" /\ nticks >= 1

\* C25: death is absorbing: once the ball is dead at the end of a tick, it is
\* dead at the end of every later tick. Nothing changes the ball between two
\* ticks, so it is enough that a tick that began with a dead ball (probe.dead)
\* ends with a dead ball.
C25_DeathIsAbsorbing ==
    (TickEnd /\ probe.dead) => is_dead(BC)

\* C26: a dead ball makes no game progress: in every tick that starts with the
\* ball dead, no gem becomes picked up, items() does not change and the finish
\* flag does not become picked up.
C26_DeadBallMakesNoProgress ==
    [][(pc # "idle" /\ probe.dead) =>
          /\ gems' = gems
          /\ num_gems' = num_gems
          /\ finish' = finish]_vars

---------------------------------------------------------------------------
(* title.rs: the title screen, kept in probe. A u32 is its 32-bit pattern   *)
(* read as a signed integer, so that u32::MAX is -1; level_list is its      *)
(* length.                                                                  *)

WINDOW_SIZE == 8

\* the directory holds up to MaxLevelFiles level files
MaxLevelFiles == 10

\* the title screen handles MaxTitleEvents events at most
MaxTitleEvents == 4

\* a < b of u32
u32_lt(a, b) == IF (a < 0) = (b < 0) THEN a < b ELSE b < 0

\* u32::min
u32_min(a, b) == IF u32_lt(a, b) THEN a ELSE b

\* u32::saturating_sub
saturating_sub(s, k) == IF u32_lt(s, k) THEN 0 ELSE s - k

\* `a - b` of u32: when b > a a build with overflow checks panics and one
\* without them wraps around
u32_sub(a, b) ==
    IF u32_lt(a, b)
    THEN {[panic |-> TRUE, value |-> 0], [panic |-> FALSE, value |-> a - b]}
    ELSE {[panic |-> FALSE, value |-> a - b]}

\* TitleController::new
TitleController_new ==
    [level_list |-> 0, selected |-> [some |-> FALSE, s |-> 0], controller_moved |-> FALSE]

\* self.selected.map(|s| u32::min(s + by, self.level_list.len() as u32 - 1)):
\* the controllers it may leave, panicked marking a panic
SelectForward(t, by) ==
    IF ~t.selected.some THEN {[panicked |-> FALSE, t |-> t]}
    ELSE {[panicked |-> last.panic,
           t |-> IF last.panic THEN t
                 ELSE [t EXCEPT !.selected.s = u32_min(t.selected.s + by, last.value)]] :
             last \in u32_sub(t.level_list, 1)}

\* self.selected.map(|s| s.saturating_sub(by))
SelectBackward(t, by) ==
    IF ~t.selected.some THEN t
    ELSE [t EXCEPT !.selected.s = saturating_sub(t.selected.s, by)]

TitleButtons == {"Escape", "Return", "Right", "Left", "Up", "Down", "Other"}

AxisPositions == {0 - Scale, 0 - Scale \div 10, Scale \div 10, Scale}

TitleRunning ==
    /\ probe.stage = "title"
    /\ probe.result = "none"
    /\ probe.steps < MaxTitleEvents

\* the title screen of a directory of `files` level files
InitTitle ==
    /\ GameIdle
    /\ \E files \in 0..MaxLevelFiles :
          probe = [stage |-> "title", files |-> files, t |-> TitleController_new,
                   result |-> "none", id |-> 0, steps |-> 0]

\* TitleController::event on the press of a button
PressButton(b) ==
    /\ TitleRunning
    /\ LET t == probe.t
           done(result, id) ==
               probe' = [probe EXCEPT !.result = result, !.id = id, !.steps = @ + 1]
           goes(outcomes) ==
               \E o \in outcomes :
                   probe' = [probe EXCEPT !.t = o.t, !.steps = @ + 1,
                                          !.result = IF o.panicked THEN "panic" ELSE "none"]
           stays(u) == goes({[panicked |-> FALSE, t |-> u]})
       IN  IF b = "Escape" THEN done("Exit", 0)
           ELSE IF ~t.selected.some
           THEN stays([t EXCEPT !.level_list = probe.files,
                                !.selected = [some |-> TRUE, s |-> 0]])
           ELSE CASE b = "Return" -> done("LoadGame", t.selected.s)
                  [] b = "Right" -> goes(SelectForward(t, WINDOW_SIZE))
                  [] b = "Left" -> stays(SelectBackward(t, WINDOW_SIZE))
                  [] b = "Up" -> stays(SelectBackward(t, 1))
                  [] b = "Down" -> goes(SelectForward(t, 1))
                  [] OTHER -> stays(t)
    /\ UNCHANGED gameVars

\* TitleController::event on a move of an axis of controller 0
AxisEvent(axis, position) ==
    /\ TitleRunning
    /\ LET t  == probe.t
           by == IF axis = 0 THEN WINDOW_SIZE ELSE 1
           outcomes ==
               IF axis \notin {0, 1} THEN {[panicked |-> FALSE, t |-> t]}
               ELSE IF Abs(position) > (2 * Scale) \div 10
               THEN IF ~t.controller_moved
                    THEN IF position > 0
                         THEN {[panicked |-> o.panicked,
                                t |-> IF o.panicked THEN o.t
                                      ELSE [o.t EXCEPT !.controller_moved = TRUE]] :
                                  o \in SelectForward(t, by)}
                         ELSE {[panicked |-> FALSE,
                                t |-> [SelectBackward(t, by) EXCEPT !.controller_moved = TRUE]]}
                    ELSE {[panicked |-> FALSE, t |-> t]}
               ELSE {[panicked |-> FALSE, t |-> [t EXCEPT !.controller_moved = FALSE]]}
       IN  \E o \in outcomes :
               probe' = [probe EXCEPT !.t = o.t, !.steps = @ + 1,
                                      !.result = IF o.panicked THEN "panic" ELSE "none"]
    /\ UNCHANGED gameVars

NextTitle ==
    \/ \E b \in TitleButtons : PressButton(b)
    \/ \E axis \in 0..2, position \in AxisPositions : AxisEvent(axis, position)

SpecTitle == InitTitle /\ [][NextTitle]_vars

\* C28: on the title screen, whenever selected is Some(i), i is a valid index
\* of level_list, for any number of level files including zero; LoadGame(i)
\* names an existing level and no index arithmetic underflows.
C28_SelectedIsValidIndex ==
    probe.stage = "title" =>
        /\ probe.t.selected.some => u32_lt(probe.t.selected.s, probe.t.level_list)
        /\ probe.result = "LoadGame" => u32_lt(probe.id, probe.files)
        /\ probe.result # "panic"

---------------------------------------------------------------------------
(* editor/mod.rs: the level editor, kept in probe.ed: the level it edits    *)
(* (descriptors) and the entities it shows for them. Positions are          *)
(* mantissas; the textures the entities need are loaded. probe.last,        *)
(* probe.at and probe.before record the last click and the editor before it.*)

DEFAULT_WIDTH == 320

DEFAULT_HEIGHT == 200

\* the editor handles MaxEditorSteps clicks at most
MaxEditorSteps == 4

\* the radius of test_point_collision_simple, 1e-2
PointRadius == Scale \div 100

\* `x as i32` of an f32
as_i32(x) == CastQuotient(x, Scale)

\* f32::round: to the nearest whole number, halves away from zero
f32_round(x) ==
    IF x = NaN THEN NaN ELSE Sgn(x) * ((Abs(x) + Scale \div 2) \div Scale) * Scale

\* Vec::remove
Vec_remove(v, i) == SubSeq(v, 1, i - 1) \o SubSeq(v, i + 1, Len(v))

\* Iterator::position: the first index whose item passes the test, 0 for None
Iter_position(v, Test(_)) ==
    IF \E i \in 1..Len(v) : Test(v[i])
    THEN CHOOSE i \in 1..Len(v) : Test(v[i]) /\ \A j \in 1..(i - 1) : ~Test(v[j])
    ELSE 0

\* Map::expand_to_fit
Map_expand_to_fit(map, dim) ==
    [map EXCEPT !.width = IF dim[1] > 0 /\ dim[1] > @ THEN dim[1] ELSE @,
                  !.height = IF dim[2] > 0 /\ dim[2] > @ THEN dim[2] ELSE @]

\* GameLevel::default
GameLevel_default ==
    [ball_pos |-> <<36, 36>>, width |-> DEFAULT_WIDTH, height |-> DEFAULT_HEIGHT,
     walls |-> <<>>, pumps |-> <<>>, mines |-> <<>>, gems |-> <<>>, finish |-> <<>>]

\* LevelEditorController::with_level
Editor_with_level(game_level) ==
    [level |-> game_level,
     ball_pos |-> <<U(game_level.ball_pos[1]), U(game_level.ball_pos[2])>>,
     walls |-> [i \in 1..Len(game_level.walls) |->
                   [pos |-> game_level.walls[i].pos, dim |-> game_level.walls[i].dim]],
     pumps |-> [i \in 1..Len(game_level.pumps) |-> [pos |-> game_level.pumps[i].pos, time_to_pump |-> 0]],
     mines |-> [i \in 1..Len(game_level.mines) |-> [pos |-> game_level.mines[i].pos]],
     gems |-> [i \in 1..Len(game_level.gems) |-> [pos |-> game_level.gems[i].pos, picked_up |-> FALSE]],
     finish |-> [i \in 1..Len(game_level.finish) |->
                    [pos |-> game_level.finish[i].pos, picked_up |-> FALSE,
                     gems_required |-> game_level.finish[i].gems_required]],
     panicked |-> FALSE]

\* Vector2::new(pos[0] as i32, pos[1] as i32), stored in a descriptor
InfoPos(pos) == <<U(as_i32(pos[1])), U(as_i32(pos[2]))>>

\* the arm ObjectPlaceholder::Wall of place_current_object
place_wall(e, pos, dim, texture_id) ==
    LET snapped == <<U(as_i32(4 * f32_round(FDivInt(pos[1], 4)))),
                     U(as_i32(4 * f32_round(FDivInt(pos[2], 4))))>>
        info    == [pos |-> snapped, dim |-> InfoPos(dim), texture_id |-> texture_id]
        wall    == [pos |-> info.pos, dim |-> info.dim]
        fitted  == Map_expand_to_fit(e.level, <<as_i32(info.pos[1] + info.dim[1]),
                                                as_i32(info.pos[2] + info.dim[2])>>)
    IN  [e EXCEPT !.walls = Append(@, wall),
                  !.level = [fitted EXCEPT !.walls = Append(@, info)]]

\* the arm ObjectPlaceholder::Mine of place_current_object pushing the entity only
place_mine_entity_only(e, pos) ==
    [e EXCEPT !.mines = Append(@, [pos |-> InfoPos(pos)])]

\* the arm ObjectPlaceholder::Mine
place_mine(e, pos) ==
    LET info == [pos |-> InfoPos(pos)]
    IN  [e EXCEPT !.mines = Append(@, [pos |-> info.pos]),
                  !.level.mines = Append(@, info)]

\* the arm ObjectPlaceholder::Pump
place_pump(e, pos) ==
    LET info == [pos |-> InfoPos(pos)]
    IN  [e EXCEPT !.pumps = Append(@, [pos |-> info.pos, time_to_pump |-> 0]),
                  !.level.pumps = Append(@, info)]

\* the arm ObjectPlaceholder::Gem
place_gem(e, pos) ==
    LET info == [pos |-> InfoPos(pos)]
    IN  [e EXCEPT !.gems = Append(@, [pos |-> info.pos, picked_up |-> FALSE]),
                  !.level.gems = Append(@, info),
                  !.level.finish = [i \in 1..Len(@) |->
                                       [@[i] EXCEPT !.gems_required = @ + 1]]]

\* the arm ObjectPlaceholder::Ball
place_ball(e, pos) ==
    [e EXCEPT !.ball_pos = pos,
              !.level.ball_pos = <<as_i32(pos[1]), as_i32(pos[2])>>]

\* the arm ObjectPlaceholder::Finish asking for no gem in a new flag
place_finish_no_gems(e, pos) ==
    IF Len(e.finish) > 0
    THEN LET info == [e.level.finish[1] EXCEPT !.pos = InfoPos(pos)]
         IN  [e EXCEPT !.level.finish = <<info>>,
                       !.finish = <<[pos |-> info.pos, picked_up |-> FALSE,
                                     gems_required |-> info.gems_required]>>]
    ELSE LET info == [pos |-> InfoPos(pos), gems_required |-> 0]
         IN  [e EXCEPT !.finish = <<[pos |-> info.pos, picked_up |-> FALSE,
                                     gems_required |-> info.gems_required]>>,
                       !.level.finish = <<info>>]

\* the arm ObjectPlaceholder::Finish
place_finish(e, pos) ==
    IF Len(e.finish) > 0
    THEN LET info == [e.level.finish[1] EXCEPT !.pos = InfoPos(pos)]
         IN  [e EXCEPT !.level.finish = <<info>>,
                       !.finish = <<[pos |-> info.pos, picked_up |-> FALSE,
                                     gems_required |-> info.gems_required]>>]
    ELSE LET info == [pos |-> InfoPos(pos), gems_required |-> Len(e.level.gems)]
         IN  [e EXCEPT !.finish = <<[pos |-> info.pos, picked_up |-> FALSE,
                                     gems_required |-> info.gems_required]>>,
                       !.level.finish = <<info>>]

\* ObjectPlaceholder, with the default wall
Placeholders ==
    {[type |-> "Wall", dim |-> <<U(48), U(48)>>, texture_id |-> 0],
     [type |-> "Mine"], [type |-> "Pump"], [type |-> "Gem"], [type |-> "Ball"],
     [type |-> "Finish"]}

\* LevelEditorController::place_current_object, the cursor at pos
place_current_object(e, placeholder, pos) ==
    CASE placeholder.type = "Wall" ->
             place_wall(e, pos, placeholder.dim, placeholder.texture_id)
      [] placeholder.type = "Mine" -> place_mine(e, pos)
      [] placeholder.type = "Pump" -> place_pump(e, pos)
      [] placeholder.type = "Gem" -> place_gem(e, pos)
      [] placeholder.type = "Ball" -> place_ball(e, pos)
      [] placeholder.type = "Finish" -> place_finish(e, pos)

\* LevelEditorController::remove_at: the editors it may leave; the decrement of
\* gems_required is a u32 subtraction
remove_at(e, logical_pos) ==
    LET wall == Iter_position(e.walls,
                    LAMBDA w : test_circle_collision(
                                   [type |-> "Wall", pos |-> w.pos, dim |-> w.dim],
                                   logical_pos, PointRadius).yes)
        mine == Iter_position(e.mines,
                    LAMBDA o : Mine_test_circle_collision_simple(o.pos, logical_pos,
                                                                 PointRadius))
        pump == Iter_position(e.pumps,
                    LAMBDA o : Pump_test_circle_collision_simple(o.pos, logical_pos,
                                                                 PointRadius))
        gem  == Iter_position(e.gems,
                    LAMBDA o : Gem_test_circle_collision_simple(o.pos, o.picked_up,
                                                                logical_pos, PointRadius))
    IN  IF wall > 0
        THEN {[e EXCEPT !.walls = Vec_remove(@, wall),
                        !.level.walls = Vec_remove(@, wall)]}
        ELSE IF mine > 0
        THEN {[e EXCEPT !.mines = Vec_remove(@, mine),
                        !.level.mines = Vec_remove(@, mine)]}
        ELSE IF pump > 0
        THEN {[e EXCEPT !.pumps = Vec_remove(@, pump),
                        !.level.pumps = Vec_remove(@, pump)]}
        ELSE IF gem > 0
        THEN LET removed == [e EXCEPT !.gems = Vec_remove(@, gem),
                                      !.level.gems = Vec_remove(@, gem)]
             IN  IF Len(e.level.finish) > 0
                 THEN {IF less.panic THEN [removed EXCEPT !.panicked = TRUE]
                       ELSE [removed EXCEPT !.level.finish[1].gems_required = less.value] :
                          less \in u32_sub(e.level.finish[1].gems_required, 1)}
                 ELSE {removed}
        ELSE IF /\ Len(e.finish) > 0
                /\ Finish_test_circle_collision_simple(e.finish[1].pos, e.finish[1].picked_up,
                                                       logical_pos, PointRadius)
        THEN {[e EXCEPT !.finish = <<>>, !.level.finish = <<>>]}
        ELSE {e}

\* the positions of the logical cursor
Cursors ==
    {<<U(13), U(13)>>, <<U(10) + Scale \div 2, U(10) + Scale \div 2>>, <<U(300), U(180)>>}

\* LevelEditorController::new
InitEditor ==
    /\ GameIdle
    /\ probe = [stage |-> "editor", ed |-> Editor_with_level(GameLevel_default),
                steps |-> 0, last |-> "new", at |-> default_vector2,
                before |-> Editor_with_level(GameLevel_default)]

EditorRunning ==
    /\ probe.stage = "editor"
    /\ ~probe.ed.panicked
    /\ probe.steps < MaxEditorSteps

\* the release of the left mouse button
PlaceObject(placeholder, pos) ==
    /\ EditorRunning
    /\ probe' = [probe EXCEPT !.ed = place_current_object(@, placeholder, pos),
                              !.before = probe.ed, !.last = "place", !.at = pos,
                              !.steps = @ + 1]
    /\ UNCHANGED gameVars

\* the press of the right mouse button
RemoveObject(pos) ==
    /\ EditorRunning
    /\ \E after \in remove_at(probe.ed, pos) :
          probe' = [probe EXCEPT !.ed = after, !.before = probe.ed, !.last = "remove",
                                 !.at = pos, !.steps = @ + 1]
    /\ UNCHANGED gameVars

NextEditor ==
    \/ \E placeholder \in Placeholders, pos \in Cursors : PlaceObject(placeholder, pos)
    \/ \E pos \in Cursors : RemoveObject(pos)

SpecEditor == InitEditor /\ [][NextEditor]_vars

---------------------------------------------------------------------------
(* Claims about the editor's lists                                          *)

EditorStage == probe.stage = "editor"

\* the entity list and the descriptor list have the same length and the i-th
\* entity shows the i-th descriptor
ParallelLists(entities, infos) ==
    /\ Len(entities) = Len(infos)
    /\ \A i \in 1..Len(infos) : entities[i].pos = infos[i].pos

\* the indices of the objects of a list under the point
HitIndices(v, Test(_)) == {i \in 1..Len(v) : Test(v[i])}

WallHits(e, p) ==
    HitIndices(e.walls, LAMBDA w : test_circle_collision(
                   [type |-> "Wall", pos |-> w.pos, dim |-> w.dim], p, PointRadius).yes)

MineHits(e, p) ==
    HitIndices(e.mines, LAMBDA o : Mine_test_circle_collision_simple(o.pos, p, PointRadius))

PumpHits(e, p) ==
    HitIndices(e.pumps, LAMBDA o : Pump_test_circle_collision_simple(o.pos, p, PointRadius))

GemHits(e, p) ==
    HitIndices(e.gems, LAMBDA o : Gem_test_circle_collision_simple(o.pos, o.picked_up, p,
                                                                    PointRadius))

FinishHits(e, p) ==
    HitIndices(e.finish, LAMBDA o : Finish_test_circle_collision_simple(o.pos, o.picked_up, p,
                                                                        PointRadius))

\* the least index of a nonempty set of indices
FirstOf(hits) == CHOOSE i \in hits : \A j \in hits : i <= j

\* kind names the list remove_at must shrink: the first kind, in the order wall,
\* mine, pump, gem, finish, with an object under the point ("none" if there is none)
FirstHitKind(e, p) ==
    IF WallHits(e, p) # {} THEN "walls"
    ELSE IF MineHits(e, p) # {} THEN "mines"
    ELSE IF PumpHits(e, p) # {} THEN "pumps"
    ELSE IF GemHits(e, p) # {} THEN "gems"
    ELSE IF FinishHits(e, p) # {} THEN "finish"
    ELSE "none"

HitsOf(e, p, kind) ==
    CASE kind = "walls" -> WallHits(e, p)
      [] kind = "mines" -> MineHits(e, p)
      [] kind = "pumps" -> PumpHits(e, p)
      [] kind = "gems" -> GemHits(e, p)
      [] kind = "finish" -> FinishHits(e, p)

EditorKinds == {"walls", "mines", "pumps", "gems", "finish"}

\* from b to a, only the first object under p of the first kind under p is gone,
\* from the entities and from the level alike
RemovedFirstHit(b, a, p) ==
    LET kind == FirstHitKind(b, p)
    IN  \A k \in EditorKinds :
           IF k = kind
           THEN /\ [i \in 1..Len(a[k]) |-> a[k][i].pos]
                      = [i \in 1..(Len(b[k]) - 1) |->
                            Vec_remove(b[k], FirstOf(HitsOf(b, p, k)))[i].pos]
                /\ [i \in 1..Len(a.level[k]) |-> a.level[k][i].pos]
                      = [i \in 1..(Len(b.level[k]) - 1) |->
                            Vec_remove(b.level[k], FirstOf(HitsOf(b, p, k)))[i].pos]
           ELSE /\ a[k] = b[k]
                /\ [i \in 1..Len(a.level[k]) |-> a.level[k][i].pos]
                      = [i \in 1..Len(b.level[k]) |-> b.level[k][i].pos]

\* C29: after any sequence of place_current_object and remove_at calls the
\* entity lists and the level's descriptor lists are parallel: walls, mines,
\* pumps and gems have the same length in both and the i-th entity has the
\* position (a wall also the dimensions) of the i-th descriptor, the finish
\* entity exists exactly when the level has a finish record, and a remove_at
\* removes at most one object, the first hit in the order wall, mine, pump,
\* gem, finish.
C29_EditorListsParallel ==
    (EditorStage /\ ~probe.ed.panicked) =>
        LET e == probe.ed
        IN  /\ ParallelLists(e.walls, e.level.walls)
            /\ \A i \in 1..Len(e.walls) : e.walls[i].dim = e.level.walls[i].dim
            /\ ParallelLists(e.mines, e.level.mines)
            /\ ParallelLists(e.pumps, e.level.pumps)
            /\ ParallelLists(e.gems, e.level.gems)
            /\ ParallelLists(e.finish, e.level.finish)
            /\ probe.last = "remove" => RemovedFirstHit(probe.before, e, probe.at)

\* a mine and a gem were under the point: the mine is gone, the gem is kept
C29_Witness ==
    /\ EditorStage
    /\ probe.last = "remove"
    /\ MineHits(probe.before, probe.at) # {}
    /\ GemHits(probe.before, probe.at) # {}
    /\ Len(probe.ed.mines) = Len(probe.before.mines) - 1
    /\ probe.ed.gems = probe.before.gems
    /\ Len(probe.ed.level.gems) >= 1

\* C30: from the default empty level, whenever the level has a finish record
\* its gems_required is the number of gem records of the level, and the
\* decrement on a gem's removal never underflows.
C30_GemsRequiredCountsGems ==
    EditorStage =>
        /\ ~probe.ed.panicked
        /\ \A i \in 1..Len(probe.ed.level.finish) :
              probe.ed.level.finish[i].gems_required = Len(probe.ed.level.gems)

\* a gem was removed while the flag asked for two: it asks for the one left
C30_Witness ==
    /\ EditorStage
    /\ probe.last = "remove"
    /\ Len(probe.before.level.finish) = 1
    /\ probe.before.level.finish[1].gems_required = 2
    /\ Len(probe.ed.level.finish) = 1
    /\ probe.ed.level.finish[1].gems_required = 1
    /\ Len(probe.ed.level.gems) = 1

=============================================================================
